---- MODULE Spec2Model ----
(***************************************************************************)
(* Model of the model registry of trans-ai/jan:                            *)
(*   core/src/node/api/restful/rag/remolink.ts   (JanModelExtension)       *)
(*   core/src/node/api/restful/helper/builder.ts (REST registry helpers)   *)
(*                                                                         *)
(* File and folder names are sequences of tokens, so that the suffixing    *)
(* `${name}-${count}`, endsWith('.gguf') and replace('.gguf', '') are      *)
(* computed and not assumed.  A path is a sequence of names below the      *)
(* models root.  The filesystem is a function from paths to nodes.         *)
(***************************************************************************)
EXTENDS Integers, Sequences, FiniteSets, TLC

VARIABLES
    fs,             \* models root: path -> node
    ext,            \* files outside the models root: path -> attributes
    clock,          \* Date.now()
    eventLog,       \* events emitted so far, oldest first
    models,         \* importModels: its argument list
    optionType,     \* importModels: its strategy argument
    idx,            \* importModels: index of the item of the for loop
    pc,             \* importModels / importModel: position in the code
    count,          \* getModelFolderName: its count argument (0 for undefined)
    modelFolderPath,\* importModel: what getModelFolderName returned
    importedModels, \* importModels: the accumulated list
    intervals,      \* importModel: item indices whose setInterval is not cleared
    ticking,        \* interval callbacks awaiting fs.fileStat
    returnedAt,     \* Len(eventLog) when importModels returned, 0 before
    lastOp,         \* the last registry call: its name, argument, result and
                    \* the filesystem it started from
    synthesized,    \* folders whose descriptor generateModelMetadata wrote
    downloadRequests, \* what downloadFile was called with, in order
    polling,        \* model ids startPollingDownloadProgress was called with
    baseApiUrl,     \* whether window.core.api.baseApiUrl is set
    ops,            \* number of registry calls made
    interval,       \* startPollingDownloadProgress: "none" before the call,
                    \* then "delay", "armed", "cleared"
    inflight,       \* status requests sent and not yet answered
    responses,      \* answers not yet handled: downloadState -> how many
    remote,         \* the download state the remote server is in
    resolved,       \* whether the polling promise is resolved
    attempts,       \* number of interval firings
    lastHandled,    \* the last answer handled and the event emitted for it
    terminalSeen,   \* whether an answer 'end' or 'error' has been handled
    downloadEvents, \* download events emitted by the polling, oldest first
    janData,        \* the Jan data folder of the REST helper: path -> node
    reply           \* the last deleteBuilder call: arguments, result and the
                    \* data folder it started from

importVars == <<models, optionType, idx, pc, count, modelFolderPath,
                importedModels, intervals, ticking, returnedAt>>
regVars == <<lastOp, synthesized, downloadRequests, polling, baseApiUrl, ops>>
pollVars == <<interval, inflight, responses, remote, resolved, attempts,
              lastHandled, terminalSeen, downloadEvents>>
builderVars == <<janData, reply>>
vars == <<fs, ext, clock, eventLog, importVars, regVars, pollVars, builderVars>>

----------------------------------------------------------------------------
(* Bounds of the model *)

MaxModels == 3
MaxProgress == 1
MaxClock == 2
MaxOps == 2
MaxInFlight == 2
MaxAttempts == 3
MaxEosId == 3
MaxDepth == 3
MaxBatch == 1
MaxCallers == 2

----------------------------------------------------------------------------
(* Names and paths *)

_modelMetadataFileName == <<"model.json">>
_supportedModelFormat == ".gguf"
_offlineInferenceEngine == {"nitro", "nitro_tensorrt_llm"}
_tensorRtEngineFormat == ".engine"
_incompletedModelFileName == ".download"

Undefined == <<>>
Some(v) == <<v>>

Min(S) == CHOOSE x \in S : \A y \in S : x <= y

DigitChar(d) == <<"0", "1", "2", "3", "4", "5", "6", "7", "8", "9">>[d + 1]

RECURSIVE NumberToString(_)
NumberToString(n) ==
    IF n < 10 THEN <<DigitChar(n)>>
    ELSE NumberToString(n \div 10) \o <<DigitChar(n % 10)>>

endsWith(name, tok) == Len(name) > 0 /\ name[Len(name)] = tok

includes(name, tok) == \E i \in 1..Len(name) : name[i] = tok

\* String.prototype.replace(tok, ''): the first occurrence only
replaceFirst(name, tok) ==
    IF includes(name, tok)
    THEN LET i == Min({j \in 1..Len(name) : name[j] = tok})
         IN  SubSeq(name, 1, i - 1) \o SubSeq(name, i + 1, Len(name))
    ELSE name

\* String.prototype.replace(/\s/g, '')
removeWhitespace(name) == SelectSeq(name, LAMBDA t : t # " ")

baseName(path) == path[Len(path)]

dirName(path) == SubSeq(path, 1, Len(path) - 1)

joinPath(dir, name) == Append(dir, name)

isPrefix(p, q) == Len(p) <= Len(q) /\ SubSeq(q, 1, Len(p)) = p

----------------------------------------------------------------------------
(* The filesystem abstraction *)

DirNode == [kind |-> "dir", size |-> 0, data |-> <<"dir">>]
FileNode(size, data) == [kind |-> "file", size |-> size, data |-> data]

existsSync(f, p) == p \in DOMAIN f

readdirSync(f, p) == {baseName(q) : q \in {r \in DOMAIN f : Len(r) = Len(p) + 1 /\ isPrefix(p, r)}}

mkdirDoesNothing(f, p) == f

mkdir(f, p) == IF p \in DOMAIN f THEN f ELSE (p :> DirNode) @@ f

writeFileSync(f, p, data) == (p :> FileNode(1, data)) @@ f

rm(f, p) == [q \in {r \in DOMAIN f : ~isPrefix(p, r)} |-> f[q]]

unlinkSync(f, p) == [q \in DOMAIN f \ {p} |-> f[q]]

----------------------------------------------------------------------------
(* Folder allocator: getModelFolderName *)

\* `${modelFolderName}-${count}` when count is truthy, else modelFolderName
newModelFolderName(modelFolderName, cnt) ==
    IF cnt # 0 THEN modelFolderName \o <<"-">> \o NumberToString(cnt)
    ELSE modelFolderName

newCountBug(cnt) == cnt + 2

newCount(cnt) == cnt + 1

----------------------------------------------------------------------------
(* Metadata codec: retrieveGGUFMetadata *)

Get(obj, k) == IF k \in DOMAIN obj THEN Some(obj[k]) ELSE Undefined

\* a ?? b
Coalesce(a, b) == IF a # Undefined THEN a ELSE b

\* {...a, ...b}
Spread(a, b) == b @@ a

\* The build-time constant DEFAULT_MODEL (injected by the bundler)
DEFAULT_MODEL ==
    [object |-> "model",
     format |-> "gguf",
     id |-> <<"N/A">>,
     name |-> <<"N/A">>,
     sources |-> <<[url |-> <<<<"N/A">>>>, filename |-> <<"N/A">>]>>,
     settings |-> [ctx_len |-> 4096,
                   embedding |-> FALSE,
                   prompt_template |-> "default-template",
                   llama_model_path |-> <<"N/A">>],
     parameters |-> [max_tokens |-> 2048, stop |-> <<"<endofstring>">>],
     created |-> 0,
     description |-> "User self import model",
     metadata |-> [author |-> "User", tags |-> <<>>, size |-> 0],
     engine |-> "nitro"]

\* Header blobs the metadata-extraction function can return, by header id.
\* Keys are <<prefix, key>> so that `${architecture}.context_length` is computed.
GGUFHeaders ==
    [llama32 |-> (<<"general", "architecture">> :> "llama")
                 @@ (<<"llama", "context_length">> :> 2048)
                 @@ (<<"llama", "block_count">> :> 32)
                 @@ (<<"tokenizer.ggml", "eos_token_id">> :> 2)
                 @@ (<<"tokenizer.ggml", "tokens">> :> <<"<unk>", "<s>", "</s>">>),
     bare    |-> (<<"general", "name">> :> "bare")]

\* Outcome of renderJinjaTemplate(metadata).catch(() => undefined), by header id
renderJinjaTemplate == [llama32 |-> Some("chat-template"), bare |-> Undefined]

HeaderIds == {"llama32", "bare"}

\* executeOnMain(NODE, 'retrieveGGUFMetadata', path): the header of a binary,
\* which rejects for a file that holds no header ("none", "partial")
canExtract(data) == data[1] = "bin" /\ data[2] \in HeaderIds

ggufModelKeepsBlockCount(metadata, template) ==
    LET eos_id == Get(metadata, <<"tokenizer.ggml", "eos_token_id">>)
        arch == Get(metadata, <<"general", "architecture">>)
        architecture == IF arch = Undefined THEN "undefined" ELSE arch[1]
        tokens == Get(metadata, <<"tokenizer.ggml", "tokens">>)
        eosTruthy == eos_id # Undefined /\ eos_id[1] # 0
    IN  IF eosTruthy /\ tokens = Undefined
        THEN [threw |-> TRUE, settings |-> <<>>, parameters |-> <<>>]
        ELSE [threw |-> FALSE,
              settings |->
                  [prompt_template |->
                       Coalesce(template,
                                Some(DEFAULT_MODEL.settings.prompt_template))[1],
                   ctx_len |->
                       Coalesce(Get(metadata, <<architecture, "context_length">>),
                         Coalesce(Get(metadata, <<"llama", "context_length">>),
                                  Some(4096)))[1],
                   ngl |->
                       Coalesce(Get(metadata, <<architecture, "block_count">>),
                         Coalesce(Get(metadata, <<"llama", "block_count">>),
                                  Some(32)))[1]],
              parameters |->
                  [stop |->
                       IF eosTruthy
                       THEN <<IF eos_id[1] + 1 \in 1..Len(tokens[1])
                              THEN tokens[1][eos_id[1] + 1] ELSE "">>
                       ELSE DEFAULT_MODEL.parameters.stop]]

\* JanModelExtension.retrieveGGUFMetadata(metadata), lines 982-1002; template is
\* what renderJinjaTemplate(metadata).catch(() => undefined) gave
ggufModel(metadata, template) ==
    LET eos_id == Get(metadata, <<"tokenizer.ggml", "eos_token_id">>)
        arch == Get(metadata, <<"general", "architecture">>)
        architecture == IF arch = Undefined THEN "undefined" ELSE arch[1]
        tokens == Get(metadata, <<"tokenizer.ggml", "tokens">>)
        eosTruthy == eos_id # Undefined /\ eos_id[1] # 0
        ctx_len == Coalesce(Get(metadata, <<architecture, "context_length">>),
                     Coalesce(Get(metadata, <<"llama", "context_length">>),
                              Some(4096)))[1]
        ngl == Coalesce(Get(metadata, <<architecture, "block_count">>),
                 Coalesce(Get(metadata, <<"llama", "block_count">>),
                          Some(32)))[1] + 1
    IN  IF eosTruthy /\ tokens = Undefined
        THEN \* undefined[eos_id]: TypeError
             [threw |-> TRUE, settings |-> <<>>, parameters |-> <<>>]
        ELSE [threw |-> FALSE,
              settings |->
                  [prompt_template |->
                       Coalesce(template,
                                Some(DEFAULT_MODEL.settings.prompt_template))[1],
                   ctx_len |-> ctx_len,
                   ngl |-> ngl],
              parameters |->
                  [stop |->
                       IF eosTruthy
                       THEN <<IF eos_id[1] + 1 \in 1..Len(tokens[1])
                              THEN tokens[1][eos_id[1] + 1] ELSE "">>
                       ELSE DEFAULT_MODEL.parameters.stop]]

\* JanModelExtension.retrieveGGUFMetadata; hdr is Undefined or Some(header id)
retrieveGGUFMetadata(hdr) ==
    IF hdr = Undefined
    THEN \* metadata['tokenizer.ggml.eos_token_id'] on undefined: TypeError
         [threw |-> TRUE, settings |-> <<>>, parameters |-> <<>>]
    ELSE ggufModel(GGUFHeaders[hdr[1]], renderJinjaTemplate[hdr[1]])

----------------------------------------------------------------------------
(* Synthesis: generateModelMetadata *)

\* Array.prototype.sort() on names: code-unit order of the tokens
TokenOrder ==
    <<" ", "-", ".DS_Store", ".download", ".engine", ".gguf", "0", "1", "2", "3",
      "4", "5", "6", "7", "8", "9", "N/A", "assistant.json", "bar", "baz",
      "config", "foo", "gone", "helper", "jan", "model.json", "renamed", "sub",
      "thread.json", "trt">>

TokenRank(t) == CHOOSE i \in 1..Len(TokenOrder) : TokenOrder[i] = t

RECURSIVE NameLess(_, _)
NameLess(a, b) ==
    IF Len(a) = 0 THEN Len(b) > 0
    ELSE IF Len(b) = 0 THEN FALSE
    ELSE IF a[1] = b[1] THEN NameLess(Tail(a), Tail(b))
    ELSE TokenRank(a[1]) < TokenRank(b[1])

\* the i-th name is the one with i - 1 names before it
sort(S) ==
    [i \in 1..Cardinality(S) |->
        CHOOSE x \in S : Cardinality({y \in S : NameLess(y, x)}) = i - 1]

GenResult(f, ret, threw) == [fs |-> f, ret |-> ret, threw |-> threw]

generateModelMetadataTakesLast(f, dir, now) ==
    IF ~existsSync(f, <<dir>>) \/ f[<<dir>>].kind # "dir"
    THEN GenResult(f, Undefined, TRUE)
    ELSE
    LET files == sort(readdirSync(f, <<dir>>))
        cand == {i \in 1..Len(files) :
                    /\ endsWith(files[i], _supportedModelFormat)
                    /\ f[<<dir, files[i]>>].kind # "dir"}
    IN  IF cand = {}
        THEN GenResult(f, Undefined, FALSE)
        ELSE
        LET binaryFileName == files[CHOOSE i \in cand : \A j \in cand : j <= i]
            node == f[<<dir, binaryFileName>>]
            metadata == IF canExtract(node.data) THEN Some(node.data[2])
                        ELSE Undefined
            updatedModel == retrieveGGUFMetadata(metadata)
            model ==
                [DEFAULT_MODEL EXCEPT
                    !.id = dir,
                    !.name = dir,
                    !.sources = <<[url |-> <<binaryFileName>>,
                                   filename |-> binaryFileName]>>,
                    !.parameters = Spread(DEFAULT_MODEL.parameters,
                                          updatedModel.parameters),
                    !.settings = Spread(Spread(DEFAULT_MODEL.settings,
                                               updatedModel.settings),
                                        [llama_model_path |-> binaryFileName]),
                    !.created = now,
                    !.description = "",
                    !.metadata = [size |-> node.size, author |-> "User",
                                  tags |-> <<>>]]
        IN  IF updatedModel.threw
            THEN GenResult(f, Undefined, TRUE)
            ELSE GenResult(writeFileSync(f, <<dir, _modelMetadataFileName>>,
                                         <<"json", model>>),
                           Some(model), FALSE)

\* JanModelExtension.generateModelMetadata(dirName) on filesystem f at time now
generateModelMetadata(f, dir, now) ==
    IF ~existsSync(f, <<dir>>) \/ f[<<dir>>].kind # "dir"
    THEN GenResult(f, Undefined, TRUE)     \* readdirSync throws
    ELSE
    LET files == sort(readdirSync(f, <<dir>>))
        cand == {i \in 1..Len(files) :
                    /\ endsWith(files[i], _supportedModelFormat)
                    /\ f[<<dir, files[i]>>].kind # "dir"}
    IN  IF cand = {}
        THEN GenResult(f, Undefined, FALSE)
        ELSE
        LET binaryFileName == files[Min(cand)]
            node == f[<<dir, binaryFileName>>]
            metadata == IF canExtract(node.data) THEN Some(node.data[2])
                        ELSE Undefined         \* .catch(() => undefined)
            updatedModel == retrieveGGUFMetadata(metadata)
            model ==
                [DEFAULT_MODEL EXCEPT
                    !.id = dir,
                    !.name = dir,
                    !.sources = <<[url |-> <<binaryFileName>>,
                                   filename |-> binaryFileName]>>,
                    !.parameters = Spread(DEFAULT_MODEL.parameters,
                                          updatedModel.parameters),
                    !.settings = Spread(Spread(DEFAULT_MODEL.settings,
                                               updatedModel.settings),
                                        [llama_model_path |-> binaryFileName]),
                    !.created = now,
                    !.description = "",
                    !.metadata = [size |-> node.size, author |-> "User",
                                  tags |-> <<>>]]
        IN  IF updatedModel.threw
            THEN GenResult(f, Undefined, TRUE)
            ELSE GenResult(writeFileSync(f, <<dir, _modelMetadataFileName>>,
                                         <<"json", model>>),
                           Some(model), FALSE)

----------------------------------------------------------------------------
(* The parts of the state a specification does not use stay as constructed *)

ImportIdle ==
    /\ models = <<>>
    /\ optionType = "SYMLINK"
    /\ idx = 1
    /\ pc = "returned"
    /\ count = 0
    /\ modelFolderPath = <<>>
    /\ importedModels = <<>>
    /\ intervals = {}
    /\ ticking = {}
    /\ returnedAt = 0

RegIdle ==
    /\ lastOp = [op |-> "none"]
    /\ synthesized = <<>>
    /\ downloadRequests = <<>>
    /\ polling = {}
    /\ baseApiUrl = FALSE
    /\ ops = 0

PollIdle ==
    /\ interval = "none"
    /\ inflight = 0
    /\ responses = [s \in {"downloading", "end", "error"} |-> 0]
    /\ remote = "downloading"
    /\ resolved = FALSE
    /\ attempts = 0
    /\ lastHandled = [op |-> "none"]
    /\ terminalSeen = FALSE
    /\ downloadEvents = <<>>

BuilderIdle == janData = <<>> /\ reply = [op |-> "none"]

----------------------------------------------------------------------------
(* External files offered for import *)

ExtFoo == <<<<"ext">>, <<"foo", ".gguf">>>>      \* a healthy GGUF binary
ExtBar == <<<<"ext">>, <<"bar", ".gguf">>>>      \* stat works, reading fails
ExtEio == <<<<"ext">>, <<"foo", " ", "bar">>>>   \* reading fails half way
ExtGone == <<<<"gone">>, <<"foo", ".gguf">>>>    \* no such file

ExtFiles ==
    (ExtFoo :> [size |-> 1, data |-> <<"bin", "llama32">>, copy |-> "ok"])
    @@ (ExtBar :> [size |-> 1, data |-> <<"bin", "none">>, copy |-> "eacces"])
    @@ (ExtEio :> [size |-> 1, data |-> <<"bin", "bare">>, copy |-> "eio"])

ImportPaths == {ExtFoo, ExtBar, ExtEio, ExtGone}

RECURSIVE SeqsUpTo(_, _)
SeqsUpTo(S, n) ==
    IF n = 0 THEN {<<>>}
    ELSE LET shorter == SeqsUpTo(S, n - 1)
         IN  shorter \cup {Append(q, x) : q \in {r \in shorter : Len(r) = n - 1}, x \in S}

----------------------------------------------------------------------------
(* Import pipeline: importModels, importModel, importModelSymlink *)

Event(type, item, modelId, percentage, list) ==
    [type |-> type, item |-> item, modelId |-> modelId,
     percentage |-> percentage, models |-> list]

emit(log, e) == Append(log, e)

\* importModel, lines 866-886: the names derived from the item's path
binaryName(model) == removeWhitespace(baseName(model.path))

modelFolderName(model) ==
    IF endsWith(binaryName(model), _supportedModelFormat)
    THEN replaceFirst(binaryName(model), _supportedModelFormat)
    ELSE binaryName(model)

modelBinaryFile(model) ==
    IF endsWith(binaryName(model), _supportedModelFormat)
    THEN binaryName(model)
    ELSE binaryName(model) \o <<_supportedModelFormat>>

binaryPath(model, folderPath) == joinPath(folderPath, modelBinaryFile(model))

NumProgress == Cardinality({i \in 1..Len(eventLog) :
                                eventLog[i].percentage # Undefined})

\* for (const model of models) { events.emit(onLocalImportModelUpdate, model)
ImportModelsNext ==
    /\ pc = "for"
    /\ idx <= Len(models)
    /\ eventLog' = emit(eventLog, Event("onLocalImportModelUpdate", idx,
                                        Undefined, Undefined, <<>>))
    /\ count' = 0
    /\ pc' = "getModelFolderName"
    /\ UNCHANGED <<fs, ext, clock, models, optionType, idx, modelFolderPath,
                   importedModels, intervals, ticking, returnedAt>>
    /\ UNCHANGED <<regVars, pollVars, builderVars>>

\* one call of getModelFolderName(modelFolderName, count)
GetModelFolderName ==
    /\ pc = "getModelFolderName"
    /\ LET path == <<newModelFolderName(modelFolderName(models[idx]), count)>>
       IN  IF ~existsSync(fs, path)
           THEN /\ modelFolderPath' = path
                /\ pc' = "mkdir"
                /\ count' = count
           ELSE /\ count' = newCount(count)
                /\ UNCHANGED <<modelFolderPath, pc>>
    /\ UNCHANGED <<fs, ext, clock, eventLog, models, optionType, idx,
                   importedModels, intervals, ticking, returnedAt>>
    /\ UNCHANGED <<regVars, pollVars, builderVars>>

\* await fs.mkdir(modelFolderPath), then the strategy branch
Mkdir ==
    /\ pc = "mkdir"
    /\ fs' = mkdir(fs, modelFolderPath)
    /\ pc' = IF optionType = "SYMLINK" THEN "importModelSymlink" ELSE "fileStat"
    /\ UNCHANGED <<ext, clock, eventLog, models, optionType, idx, count,
                   modelFolderPath, importedModels, intervals, ticking, returnedAt>>
    /\ UNCHANGED <<regVars, pollVars, builderVars>>

FailedAborts ==
    /\ eventLog' = emit(eventLog, Event("onLocalImportModelFailed", idx,
                                        Undefined, Undefined, <<>>))
    /\ idx' = Len(models) + 1
    /\ pc' = "for"
    /\ UNCHANGED importedModels

\* the catch block of importModels, and the loop's next iteration
Failed ==
    /\ eventLog' = emit(eventLog, Event("onLocalImportModelFailed", idx,
                                        Undefined, Undefined, <<>>))
    /\ idx' = idx + 1
    /\ pc' = "for"
    /\ UNCHANGED importedModels

SucceededUnshift(importedModel) ==
    IF importedModel = Undefined
    THEN Failed
    ELSE /\ eventLog' = emit(eventLog, Event("onLocalImportModelSuccess", idx,
                                             Some(importedModel[1].id),
                                             Undefined, <<>>))
         /\ importedModels' = <<importedModel[1]>> \o importedModels
         /\ idx' = idx + 1
         /\ pc' = "for"

\* events.emit(onLocalImportModelSuccess, {...model, modelId: importedModel.id})
\* and importedModels.push(importedModel); importedModel.id throws on undefined
Succeeded(importedModel) ==
    IF importedModel = Undefined
    THEN Failed
    ELSE /\ eventLog' = emit(eventLog, Event("onLocalImportModelSuccess", idx,
                                             Some(importedModel[1].id),
                                             Undefined, <<>>))
         /\ importedModels' = Append(importedModels, importedModel[1])
         /\ idx' = idx + 1
         /\ pc' = "for"

symlinkModelNamedByBinary(path, folderName, now) ==
    LET binaryFileName == baseName(path)
        updatedModel == retrieveGGUFMetadata(Some(ext[path].data[2]))
    IN  [DEFAULT_MODEL EXCEPT
            !.id = binaryFileName,
            !.name = binaryFileName,
            !.sources = <<[url |-> path, filename |-> binaryFileName]>>,
            !.parameters = Spread(DEFAULT_MODEL.parameters, updatedModel.parameters),
            !.settings = Spread(Spread(DEFAULT_MODEL.settings, updatedModel.settings),
                                [llama_model_path |-> binaryFileName]),
            !.created = now,
            !.description = "",
            !.metadata = [size |-> ext[path].size, author |-> "User", tags |-> <<>>]]

\* the descriptor importModelSymlink builds, lines 782-812
symlinkModel(path, folderName, now) ==
    LET binaryFileName == baseName(path)
        updatedModel == retrieveGGUFMetadata(Some(ext[path].data[2]))
    IN  [DEFAULT_MODEL EXCEPT
            !.id = folderName,
            !.name = folderName,
            !.sources = <<[url |-> path, filename |-> binaryFileName]>>,
            !.parameters = Spread(DEFAULT_MODEL.parameters, updatedModel.parameters),
            !.settings = Spread(Spread(DEFAULT_MODEL.settings, updatedModel.settings),
                                [llama_model_path |-> binaryFileName]),
            !.created = now,
            !.description = "",
            !.metadata = [size |-> ext[path].size, author |-> "User", tags |-> <<>>]]

\* importModelSymlink(model.path, uniqueFolderName, modelFolderPath)
ImportModelSymlink ==
    /\ pc = "importModelSymlink"
    /\ LET path == models[idx].path
           modelFilePath == joinPath(modelFolderPath, _modelMetadataFileName)
       IN  IF \/ path \notin DOMAIN ext                 \* fs.fileStat throws
              \/ ~canExtract(ext[path].data)            \* executeOnMain rejects
              \/ retrieveGGUFMetadata(Some(ext[path].data[2])).threw
           THEN Failed /\ fs' = fs
           ELSE LET model == symlinkModel(path, baseName(modelFolderPath), clock)
                IN  /\ fs' = writeFileSync(fs, modelFilePath, <<"json", model>>)
                    /\ Succeeded(Some(
                         [file_path |-> modelFilePath,
                          file_name |-> _modelMetadataFileName] @@ model))
    /\ UNCHANGED <<ext, clock, models, optionType, count, modelFolderPath,
                   intervals, ticking, returnedAt>>
    /\ UNCHANGED <<regVars, pollVars, builderVars>>

\* const srcStat = await fs.fileStat(model.path, true); setInterval(...)
FileStat ==
    /\ pc = "fileStat"
    /\ IF models[idx].path \notin DOMAIN ext
       THEN Failed /\ intervals' = intervals
       ELSE /\ intervals' = intervals \cup
                {[item |-> idx,
                  binaryPath |-> binaryPath(models[idx], modelFolderPath),
                  srcSize |-> ext[models[idx].path].size]}
            /\ pc' = "copyFile"
            /\ UNCHANGED <<eventLog, idx, importedModels>>
    /\ UNCHANGED <<fs, ext, clock, models, optionType, count, modelFolderPath,
                   ticking, returnedAt>>
    /\ UNCHANGED <<regVars, pollVars, builderVars>>

\* fs.copyFile has opened the destination and not yet written it all
CopyFileOpen ==
    /\ pc = "copyFile"
    /\ ext[models[idx].path].copy # "eacces"
    /\ ~existsSync(fs, binaryPath(models[idx], modelFolderPath))
    /\ fs' = (binaryPath(models[idx], modelFolderPath)
                 :> FileNode(0, <<"bin", "partial">>)) @@ fs
    /\ UNCHANGED <<ext, clock, eventLog, importVars>>
    /\ UNCHANGED <<regVars, pollVars, builderVars>>

clearInterval(set, item) == {t \in set : t.item # item}

\* await fs.copyFile(model.path, binaryPath) resolves; clearInterval(interval)
CopyFileDone ==
    /\ pc = "copyFile"
    /\ ext[models[idx].path].copy = "ok"
    /\ existsSync(fs, binaryPath(models[idx], modelFolderPath))
    /\ fs' = (binaryPath(models[idx], modelFolderPath)
                 :> FileNode(ext[models[idx].path].size, ext[models[idx].path].data))
             @@ fs
    /\ intervals' = clearInterval(intervals, idx)
    /\ pc' = "generateModelMetadata"
    /\ UNCHANGED <<ext, clock, eventLog, models, optionType, idx, count,
                   modelFolderPath, importedModels, ticking, returnedAt>>
    /\ UNCHANGED <<regVars, pollVars, builderVars>>

\* await fs.copyFile(...) rejects: control leaves importModel past clearInterval.
\* The destination, when it was opened, is removed or (removal failing) left,
\* and what is left may or may not reach past the header of the source.
CopyFileThrows ==
    /\ pc = "copyFile"
    /\ LET dest == binaryPath(models[idx], modelFolderPath)
       IN  \/ /\ ext[models[idx].path].copy = "eacces"
              /\ fs' = fs
           \/ /\ ext[models[idx].path].copy = "eio"
              /\ existsSync(fs, dest)
              /\ fs' \in {fs, unlinkSync(fs, dest),
                          (dest :> FileNode(0, ext[models[idx].path].data)) @@ fs}
    /\ Failed
    /\ UNCHANGED <<ext, clock, models, optionType, count, modelFolderPath,
                   intervals, ticking, returnedAt>>
    /\ UNCHANGED <<regVars, pollVars, builderVars>>

\* return this.generateModelMetadata(uniqueFolderName), back in importModels
GenerateModelMetadata ==
    /\ pc = "generateModelMetadata"
    /\ LET r == generateModelMetadata(fs, baseName(modelFolderPath), clock)
       IN  /\ fs' = r.fs
           /\ IF r.threw THEN Failed ELSE Succeeded(r.ret)
    /\ UNCHANGED <<ext, clock, models, optionType, count, modelFolderPath,
                   intervals, ticking, returnedAt>>
    /\ UNCHANGED <<regVars, pollVars, builderVars>>

\* events.emit(onLocalImportModelFinished, importedModels); the call returns
ImportModelsFinished ==
    /\ pc = "for"
    /\ idx > Len(models)
    /\ eventLog' = emit(eventLog, Event("onLocalImportModelFinished", 0,
                                        Undefined, Undefined, importedModels))
    /\ returnedAt' = Len(eventLog')
    /\ pc' = "returned"
    /\ UNCHANGED <<fs, ext, clock, models, optionType, idx, count,
                   modelFolderPath, importedModels, intervals, ticking>>
    /\ UNCHANGED <<regVars, pollVars, builderVars>>

\* the interval fires: its callback starts and awaits fs.fileStat(binaryPath)
IntervalFires ==
    /\ \E t \in intervals \ ticking :
          /\ NumProgress + Cardinality(ticking) < MaxProgress
          /\ ticking' = ticking \cup {t}
    /\ UNCHANGED <<fs, ext, clock, eventLog, models, optionType, idx, pc, count,
                   modelFolderPath, importedModels, intervals, returnedAt>>
    /\ UNCHANGED <<regVars, pollVars, builderVars>>

\* fs.fileStat(binaryPath) settles in the callback: the percentage is emitted,
\* or the stat rejects and the callback ends without an event
IntervalCallback ==
    /\ \E t \in ticking :
          /\ ticking' = ticking \ {t}
          /\ eventLog' =
                IF existsSync(fs, t.binaryPath)
                THEN emit(eventLog,
                          Event("onLocalImportModelUpdate", t.item, Undefined,
                                Some(<<fs[t.binaryPath].size, t.srcSize>>), <<>>))
                ELSE eventLog
    /\ UNCHANGED <<fs, ext, clock, models, optionType, idx, pc, count,
                   modelFolderPath, importedModels, intervals, returnedAt>>
    /\ UNCHANGED <<regVars, pollVars, builderVars>>

FsWith(folders) == [p \in {<<>>} \cup {<<d>> : d \in folders} |-> DirNode]

ImportInit ==
    /\ fs \in {FsWith({}), FsWith({<<"foo">>})}
    /\ ext = ExtFiles
    /\ clock = 0
    /\ eventLog = <<>>
    /\ models \in {[i \in 1..Len(q) |-> [path |-> q[i]]] :
                      q \in SeqsUpTo(ImportPaths, MaxModels)}
    /\ optionType \in {"SYMLINK", "MOVE_BINARY_FILE"}
    /\ idx = 1
    /\ pc = "for"
    /\ count = 0
    /\ modelFolderPath = <<>>
    /\ importedModels = <<>>
    /\ intervals = {}
    /\ ticking = {}
    /\ returnedAt = 0
    /\ RegIdle /\ PollIdle /\ BuilderIdle

ImportNext ==
    \/ ImportModelsNext
    \/ GetModelFolderName
    \/ Mkdir
    \/ ImportModelSymlink
    \/ FileStat
    \/ CopyFileOpen
    \/ CopyFileDone
    \/ CopyFileThrows
    \/ GenerateModelMetadata
    \/ ImportModelsFinished
    \/ IntervalFires
    \/ IntervalCallback

SpecImport == ImportInit /\ [][ImportNext]_vars

----------------------------------------------------------------------------
(* The allocator on its own: any set of existing folders, any desired name *)

AllocFolders ==
    {<<"foo">>, <<"foo", "-", "1">>, <<"foo", "-", "2">>,
     <<"foo", "-", "1", "-", "1">>, <<"bar">>}

AllocPaths ==
    {<<<<"ext">>, <<"foo", ".gguf">>>>,
     <<<<"ext">>, <<"foo", "-", "1", ".gguf">>>>,
     <<<<"ext">>, <<"bar", " ">>>>}

AllocInit ==
    /\ fs \in {FsWith(S) : S \in SUBSET AllocFolders}
    /\ ext = ExtFiles
    /\ clock = 0
    /\ eventLog = <<>>
    /\ models \in {<<[path |-> p]>> : p \in AllocPaths}
    /\ optionType = "SYMLINK"
    /\ idx = 1
    /\ pc = "getModelFolderName"
    /\ count = 0
    /\ modelFolderPath = <<>>
    /\ importedModels = <<>>
    /\ intervals = {}
    /\ ticking = {}
    /\ returnedAt = 0
    /\ RegIdle /\ PollIdle /\ BuilderIdle

AllocNext == GetModelFolderName

SpecAlloc == AllocInit /\ [][AllocNext]_vars

----------------------------------------------------------------------------
(* Claims about the allocator and the import pipeline *)

Suffixed(N, k) == N \o <<"-">> \o NumberToString(k)

\* C1: getModelFolderName returns root/N when root/N does not exist, and
\* otherwise root/N-k for the smallest k >= 1 such that root/N-k does not
\* exist; the returned path names no folder that exists.
C1_SmallestFreeSuffix ==
    pc = "mkdir" =>
        LET N == modelFolderName(models[idx])
        IN  /\ ~existsSync(fs, modelFolderPath)
            /\ ~existsSync(fs, <<N>>) => modelFolderPath = <<N>>
            /\ existsSync(fs, <<N>>) =>
                 \E k \in 1..Cardinality(DOMAIN fs) :
                    /\ modelFolderPath = <<Suffixed(N, k)>>
                    /\ \A j \in 1..(k - 1) : existsSync(fs, <<Suffixed(N, j)>>)

\* C1 witness: with foo and foo-1 present, allocating for foo yields foo-2
C1_Witness ==
    /\ pc = "mkdir"
    /\ modelFolderName(models[idx]) = <<"foo">>
    /\ existsSync(fs, <<<<"foo">>>>)
    /\ existsSync(fs, <<<<"foo", "-", "1">>>>)
    /\ modelFolderPath = <<<<"foo", "-", "2">>>>

IsTerminal(e) ==
    e.type \in {"onLocalImportModelSuccess", "onLocalImportModelFailed"}

IsInitialUpdate(e) ==
    e.type = "onLocalImportModelUpdate" /\ e.percentage = Undefined

IsProgress(e) ==
    e.type = "onLocalImportModelUpdate" /\ e.percentage # Undefined

TerminalAt == {p \in 1..Len(eventLog) : IsTerminal(eventLog[p])}

InitialUpdateAt == {p \in 1..Len(eventLog) : IsInitialUpdate(eventLog[p])}

ProgressAt == {p \in 1..Len(eventLog) : IsProgress(eventLog[p])}

OfItem(i) == {p \in 1..Len(eventLog) : eventLog[p].item = i}

SuccessAt == {p \in 1..Len(eventLog) : eventLog[p].type = "onLocalImportModelSuccess"}

FinishedAt == {p \in 1..Len(eventLog) : eventLog[p].type = "onLocalImportModelFinished"}

\* the positions of S in increasing order
RECURSIVE Ascending(_)
Ascending(S) == IF S = {} THEN <<>> ELSE <<Min(S)>> \o Ascending(S \ {Min(S)})

\* an item the pipeline can import: the file is there, its header can be
\* extracted, and (copy strategy) its bytes can be read to the end
Importable(path) ==
    /\ path \in DOMAIN ext
    /\ canExtract(ext[path].data)
    /\ optionType # "SYMLINK" => ext[path].copy = "ok"

\* C3: every item gets exactly one terminal event (success or failure, never
\* both); a failing item gets a failure event and the later items are still
\* imported; exactly one finished event is emitted, and its list holds
\* exactly the descriptors of the items that got a success event.
C3_BatchResilience ==
    /\ \A i \in 1..Len(models) :
          /\ Cardinality(TerminalAt \cap OfItem(i)) <= 1
          /\ i < idx => Cardinality(TerminalAt \cap OfItem(i)) = 1
          /\ \A p \in TerminalAt \cap OfItem(i) :
                (eventLog[p].type = "onLocalImportModelSuccess")
                    <=> Importable(models[i].path)
    /\ Cardinality(FinishedAt) = IF pc = "returned" THEN 1 ELSE 0
    /\ pc = "returned" =>
          /\ \A i \in 1..Len(models) :
                /\ Cardinality(InitialUpdateAt \cap OfItem(i)) = 1
                /\ Cardinality(TerminalAt \cap OfItem(i)) = 1
          /\ \A p \in FinishedAt :
                /\ Len(eventLog[p].models) = Cardinality(SuccessAt)
                /\ \A k \in 1..Cardinality(SuccessAt) :
                      Some(eventLog[p].models[k].id)
                          = eventLog[Ascending(SuccessAt)[k]].modelId

\* C3 witness: three inputs, the second unreadable: one failure, two
\* successes and a finished list of two
C3_Witness ==
    /\ pc = "returned"
    /\ Len(models) = 3
    /\ models[2].path = ExtBar
    /\ \E p \in OfItem(1) : eventLog[p].type = "onLocalImportModelSuccess"
    /\ \E p \in OfItem(2) : eventLog[p].type = "onLocalImportModelFailed"
    /\ \E p \in OfItem(3) : eventLog[p].type = "onLocalImportModelSuccess"
    /\ Len(eventLog[returnedAt].models) = 2

\* C4: the import of item i+1 (its initial update event, its folder
\* allocation, its copy) begins only after item i emitted its terminal event;
\* the finished event comes after the last item's terminal event and is the
\* last event emitted before importModels returns; the finished list holds
\* the successes in input order.
C4_Sequential ==
    /\ \A p \in InitialUpdateAt :
          \A j \in 1..(eventLog[p].item - 1) :
             \E q \in 1..(p - 1) : IsTerminal(eventLog[q]) /\ eventLog[q].item = j
    /\ pc \notin {"for", "returned"} =>
          /\ \A j \in 1..(idx - 1) : TerminalAt \cap OfItem(j) # {}
          /\ TerminalAt \cap OfItem(idx) = {}
          /\ InitialUpdateAt \cap OfItem(idx) # {}
          /\ \A t \in intervals : t.item <= idx
    /\ \A p \in 1..Len(eventLog) : \A q \in 1..Len(eventLog) :
          (p < q /\ ~IsProgress(eventLog[p]) /\ ~IsProgress(eventLog[q])
             /\ eventLog[q].item # 0)
          => eventLog[p].item <= eventLog[q].item /\ eventLog[p].item # 0
    /\ pc = "returned" =>
          /\ \A q \in (returnedAt + 1)..Len(eventLog) : IsProgress(eventLog[q])
          /\ eventLog[returnedAt].type = "onLocalImportModelFinished"
          /\ \A q \in TerminalAt : q < returnedAt
          /\ \A k \in 1..Len(importedModels) :
                eventLog[returnedAt].models[k].id
                    = eventLog[Ascending(SuccessAt)[k]].modelId[1]

\* C4 witness: a batch returned with two successes, the second item's import
\* having started after the first item's success event
C4_Witness ==
    /\ pc = "returned"
    /\ Cardinality(SuccessAt) >= 2
    /\ \E p \in ProgressAt : p < returnedAt

\* C5: whenever importModel with the copy strategy has finished for an item
\* (its success or failure event is out), the interval it created is
\* cleared, and no progress update of that item follows its terminal event.
C5_IntervalReleased ==
    \A p \in TerminalAt :
        /\ \A t \in intervals : t.item # eventLog[p].item
        /\ \A q \in ProgressAt : eventLog[q].item = eventLog[p].item => q < p

----------------------------------------------------------------------------
(* Descriptor store: getModelJsonPath, getModelsMetadata *)

\* String.prototype.toLowerCase on the tokens that carry upper case
toLowerCase(t) ==
    CASE t = "User" -> "user"
      [] t = "USER" -> "user"
      [] t = "Jan" -> "jan"
      [] t = "NVIDIA" -> "nvidia"
      [] t = "AMD" -> "amd"
      [] OTHER -> t

\* JSON.parse(text): only a descriptor that was serialised parses
parses(node) == node.kind = "file" /\ node.data[1] = "json"

\* obj with the listed keys left out (JSON.stringify drops undefined members)
omit(obj, keys) == [k \in DOMAIN obj \ keys |-> obj[k]]

RECURSIVE getModelJsonPathShallow(_, _)
getModelJsonPathShallow(f, folderFullPath) ==
    IF ~existsSync(f, folderFullPath)
    THEN [threw |-> FALSE, ret |-> Undefined]
    ELSE IF f[folderFullPath].kind # "dir"
    THEN [threw |-> TRUE, ret |-> Undefined]
    ELSE
    LET files == sort(readdirSync(f, folderFullPath))
        sub == [i \in 1..Len(files) |->
                   IF f[joinPath(folderFullPath, files[i])].kind = "dir"
                   THEN getModelJsonPathShallow(f, joinPath(folderFullPath, files[i])).ret
                   ELSE Undefined]
    IN  IF Len(files) = 0
        THEN [threw |-> FALSE, ret |-> Undefined]
        ELSE IF _modelMetadataFileName \in readdirSync(f, folderFullPath)
        THEN [threw |-> FALSE,
              ret |-> Some(joinPath(folderFullPath, _modelMetadataFileName))]
        ELSE [threw |-> FALSE, ret |-> sub[1]]

\* getModelJsonPath(folderFullPath): [threw, ret], ret Undefined or Some(path)
RECURSIVE getModelJsonPath(_, _)
getModelJsonPath(f, folderFullPath) ==
    IF ~existsSync(f, folderFullPath)
    THEN [threw |-> FALSE, ret |-> Undefined]
    ELSE IF f[folderFullPath].kind # "dir"
    THEN [threw |-> TRUE, ret |-> Undefined]        \* readdirSync: ENOTDIR
    ELSE
    LET files == sort(readdirSync(f, folderFullPath))
        sub == [i \in 1..Len(files) |->
                   IF f[joinPath(folderFullPath, files[i])].kind = "dir"
                   THEN getModelJsonPath(f, joinPath(folderFullPath, files[i])).ret
                   ELSE Undefined]
        hits == {i \in 1..Len(files) : sub[i] # Undefined}
    IN  IF Len(files) = 0
        THEN [threw |-> FALSE, ret |-> Undefined]
        ELSE IF _modelMetadataFileName \in readdirSync(f, folderFullPath)
        THEN [threw |-> FALSE,
              ret |-> Some(joinPath(folderFullPath, _modelMetadataFileName))]
        ELSE [threw |-> FALSE,
              ret |-> IF hits = {} THEN Undefined ELSE sub[Min(hits)]]

promoteSourceUrlNamesByUrl(model) ==
    IF "source_url" \in DOMAIN model
    THEN [sources |-> <<[filename |-> baseName(model.source_url),
                         url |-> model.source_url]>>]
         @@ model
    ELSE model

\* the backward-compatibility rewrite of source_url, lines 579-586
promoteSourceUrl(model) ==
    IF "source_url" \in DOMAIN model
    THEN [sources |-> <<[filename |-> model.id, url |-> model.source_url]>>]
         @@ model
    ELSE model

readJsonRegenerates(f, dir, now) ==
    LET g == generateModelMetadata(f, dir, now)
    IN  [fs |-> g.fs, ret |-> g.ret, generated |-> g.ret # Undefined]

\* one element of readJsonPromises, given what getModelJsonPath returned:
\* [fs, ret, generated]; a rejected promise and an undefined value both leave
\* ret Undefined
readJsonAt(f, dir, now, jsonPath) ==
    IF jsonPath.threw
    THEN [fs |-> f, ret |-> Undefined, generated |-> FALSE]
    ELSE IF jsonPath.ret # Undefined /\ existsSync(f, jsonPath.ret[1])
    THEN IF ~parses(f[jsonPath.ret[1]])
         THEN [fs |-> f, ret |-> Undefined, generated |-> FALSE]
         ELSE [fs |-> f,
               ret |-> Some([file_path |-> jsonPath.ret[1],
                             file_name |-> _modelMetadataFileName]
                            @@ promoteSourceUrl(f[jsonPath.ret[1]].data[2])),
               generated |-> FALSE]
    ELSE CHOOSE out \in {[fs |-> g.fs, ret |-> g.ret, generated |-> g.ret # Undefined] :
                            g \in {generateModelMetadata(f, dir, now)}} : TRUE

readJson(f, dir, now) ==
    CHOOSE out \in {readJsonAt(f, dir, now, jsonPath) :
                       jsonPath \in {getModelJsonPath(f, <<dir>>)}} : TRUE

\* Promise.all in place of Promise.allSettled
gatherRejectsTogether(f, dirs, results) ==
    [fs |-> f,
     ret |-> IF \E i \in 1..Len(dirs) :
                   /\ existsSync(f, <<dirs[i], _modelMetadataFileName>>)
                   /\ ~parses(f[<<dirs[i], _modelMetadataFileName>>])
             THEN <<>>
             ELSE [i \in 1..Len(SelectSeq(results, LAMBDA r : r.ret # Undefined)) |->
                      SelectSeq(results, LAMBDA r : r.ret # Undefined)[i].ret[1]],
     generated |-> {}]

\* Promise.allSettled over readJsonPromises: every promise starts from the
\* same tree and reads and writes inside its own folder only, so the
\* descriptors they write are gathered into the tree afterwards
gather(f, dirs, results) ==
    [fs |-> [q \in {<<dirs[i], _modelMetadataFileName>> :
                       i \in {j \in 1..Len(dirs) : results[j].generated}} |->
                results[CHOOSE j \in 1..Len(dirs) : dirs[j] = q[1]].fs[q]]
             @@ f,
     ret |-> [i \in 1..Len(SelectSeq(results, LAMBDA r : r.ret # Undefined)) |->
                 SelectSeq(results, LAMBDA r : r.ret # Undefined)[i].ret[1]],
     generated |-> {dirs[i] : i \in {j \in 1..Len(dirs) : results[j].generated}}]

\* the folders are read one promise each; dirs and the results are computed
\* once
readEach(f, dirs, now) ==
    CHOOSE out \in {gather(f, dirs, results) :
                       results \in {[i \in 1..Len(dirs) |-> readJson(f, dirs[i], now)]}} :
        TRUE

readAll(f, dirs, now) ==
    CHOOSE out \in {readEach(f, d, now) : d \in {dirs}} : TRUE

\* getModelsMetadata() without a selector, as getConfiguredModels calls it
getModelsMetadata(f, now) ==
    IF ~existsSync(f, <<>>)
    THEN [fs |-> f, ret |-> <<>>, generated |-> {}]
    ELSE readAll(f,
                 SelectSeq(sort(readdirSync(f, <<>>)),
                           LAMBDA d : d # <<".DS_Store">> /\ d # <<"config">>),
                 now)

\* the last call: its argument, what it returned, when it ran, and the
\* filesystem and synthesis record it started from
Op(name, arg, ret) ==
    [op |-> name, arg |-> arg, ret |-> ret, at |-> clock, pre |-> fs,
     preSynth |-> synthesized]

\* synthesized maps a folder to the descriptor generateModelMetadata wrote
\* there, for as long as that file is the one on disk
stillSynthesized(f) ==
    [d \in {e \in DOMAIN synthesized :
                /\ existsSync(f, <<e, _modelMetadataFileName>>)
                /\ f[<<e, _modelMetadataFileName>>].data = <<"json", synthesized[e]>>}
        |-> synthesized[d]]

GetConfiguredModels ==
    /\ ops < MaxOps
    /\ \E r \in {getModelsMetadata(fs, clock)} :
           /\ fs' = r.fs
           /\ lastOp' = Op("getModelsMetadata", <<>>, r.ret)
           /\ synthesized' =
                  [d \in r.generated |-> r.fs[<<d, _modelMetadataFileName>>].data[2]]
                  @@ synthesized
    /\ ops' = ops + 1
    /\ UNCHANGED <<ext, clock, eventLog, downloadRequests, polling, baseApiUrl>>
    /\ UNCHANGED <<importVars, pollVars, builderVars>>

\* !url.startsWith('http://') && !url.startsWith('https://')
isLocalUrl(url) == Len(url) = 0 \/ url[1] \notin {<<"http:">>, <<"https:">>}

\* file.toLowerCase().includes(format)
hasFormat(file, format) ==
    includes([j \in 1..Len(file) |-> toLowerCase(file[j])], format)

matchedFilesCountsPartials(f, modelDir) ==
    {file \in readdirSync(f, <<modelDir>>) :
        hasFormat(file, ".gguf") \/ hasFormat(file, ".engine")}

\* the files the selector counts: not ending with '.download' and holding
\* '.gguf' or '.engine' in their lower-cased name
matchedFiles(f, modelDir) ==
    {file \in readdirSync(f, <<modelDir>>) :
        /\ ~endsWith(file, _incompletedModelFileName)
        /\ \/ hasFormat(file, _supportedModelFormat)
           \/ hasFormat(file, _tensorRtEngineFormat)}

\* the selector getDownloadedModels passes to getModelsMetadata
selector(f, modelDir, model) ==
    IF "engine" \notin DOMAIN model \/ model.engine \notin _offlineInferenceEngine
    THEN TRUE
    ELSE IF \A i \in 1..Len(model.sources) : isLocalUrl(model.sources[i].url)
    THEN TRUE
    ELSE \/ modelDir \in readdirSync(f, <<modelDir>>)
         \/ Cardinality(matchedFiles(f, modelDir)) >= Len(model.sources)

\* getDownloadedModels(): the selector runs on the read branch only, a
\* descriptor generateModelMetadata has just written is returned as it is
getDownloadedModels(f, now) ==
    CHOOSE out \in
        {[fs |-> all.fs,
          ret |-> SelectSeq(all.ret,
                            LAMBDA model :
                                \/ "file_path" \notin DOMAIN model
                                \/ selector(f, model.file_path[1], model)),
          generated |-> all.generated] : all \in {getModelsMetadata(f, now)}} : TRUE

GetDownloadedModels ==
    /\ ops < MaxOps
    /\ \E r \in {getDownloadedModels(fs, clock)} :
           /\ fs' = r.fs
           /\ lastOp' = Op("getDownloadedModels", <<>>, r.ret)
           /\ synthesized' =
                  [d \in r.generated |-> r.fs[<<d, _modelMetadataFileName>>].data[2]]
                  @@ synthesized
    /\ ops' = ops + 1
    /\ UNCHANGED <<ext, clock, eventLog, downloadRequests, polling, baseApiUrl>>
    /\ UNCHANGED <<importVars, pollVars, builderVars>>

\* Date.now() moves on between calls
ClockTicks ==
    /\ clock < MaxClock
    /\ clock' = clock + 1
    /\ UNCHANGED <<fs, ext, eventLog, importVars, regVars, pollVars, builderVars>>

----------------------------------------------------------------------------
(* Registry facade: deleteModel, updateModelInfo *)

isUserImportModelBug(modelInfo) ==
    "metadata" \in DOMAIN modelInfo
        /\ "author" \in DOMAIN modelInfo.metadata
        /\ modelInfo.metadata.author = "user"

\* modelInfo.metadata?.author?.toLowerCase() === 'user'
isUserImportModel(modelInfo) ==
    "metadata" \in DOMAIN modelInfo
        /\ "author" \in DOMAIN modelInfo.metadata
        /\ toLowerCase(modelInfo.metadata.author) = "user"

\* unlink every entry of dirPath except model.json; unlinking a directory
\* rejects, which Promise.allSettled swallows
unlinkOthers(f, dirPath) ==
    [q \in {r \in DOMAIN f :
               ~(/\ Len(r) = Len(dirPath) + 1
                 /\ isPrefix(dirPath, r)
                 /\ baseName(r) # _modelMetadataFileName
                 /\ f[r].kind = "file")} |-> f[q]]

\* the data folder and the files outside it are one filesystem to fs.rm and
\* fs.unlinkSync: external files stand at their own absolute paths
disk(f, e) == f @@ [p \in DOMAIN e |-> FileNode(e[p].size, e[p].data)]

\* the part of a filesystem inside the data folder, and the part outside it
inside(d, e) == [q \in DOMAIN d \ DOMAIN e |-> d[q]]

outside(d, e) ==
    [q \in DOMAIN e \cap DOMAIN d |->
        [e[q] EXCEPT !.size = d[q].size, !.data = d[q].data]]

unlinkAll(f, paths) == [q \in DOMAIN f \ paths |-> f[q]]

deleteModelUnlinksSources(f, model) ==
    IF "file_path" \notin DOMAIN model
    THEN f
    ELSE
    LET dirPath == dirName(model.file_path)
        jsonFilePath == joinPath(dirPath, _modelMetadataFileName)
    IN  IF ~existsSync(f, jsonFilePath) \/ ~parses(f[jsonFilePath])
        THEN f
        ELSE IF isUserImportModel(f[jsonFilePath].data[2])
        THEN LET modelInfo == promoteSourceUrl(f[jsonFilePath].data[2])
             IN  rm(unlinkAll(f, {modelInfo.sources[i].url :
                                     i \in 1..Len(modelInfo.sources)}),
                    dirPath)
        ELSE unlinkOthers(f, dirPath)

\* deleteModel(model): the filesystem it leaves
deleteModel(f, model) ==
    IF "file_path" \notin DOMAIN model
    THEN f
    ELSE
    LET dirPath == dirName(model.file_path)
        jsonFilePath == joinPath(dirPath, _modelMetadataFileName)
    IN  IF ~existsSync(f, jsonFilePath) \/ ~parses(f[jsonFilePath])
        THEN f                                    \* caught: console.error
        ELSE IF isUserImportModel(f[jsonFilePath].data[2])
        THEN rm(f, dirPath)
        ELSE unlinkOthers(f, dirPath)

\* what a caller can hand to deleteModel and updateModelInfo: the descriptor
\* files of the tree, and one path that does not exist
DescriptorPaths(f) ==
    {q \in DOMAIN f : Len(q) > 0 /\ baseName(q) = _modelMetadataFileName}

StalePath == <<<<"gone">>, _modelMetadataFileName>>

DeleteModel ==
    /\ ops < MaxOps
    /\ \E file_path \in DescriptorPaths(fs) \cup {StalePath} :
          /\ \E d \in {deleteModel(disk(fs, ext), [file_path |-> file_path])} :
                /\ fs' = inside(d, ext)
                /\ ext' = outside(d, ext)
          /\ lastOp' = Op("deleteModel", [file_path |-> file_path], <<>>)
    /\ synthesized' = stillSynthesized(fs')
    /\ ops' = ops + 1
    /\ UNCHANGED <<clock, eventLog, downloadRequests, polling, baseApiUrl>>
    /\ UNCHANGED <<importVars, pollVars, builderVars>>

\* obj.section, or the empty object when obj has no such member
section(obj, name) == IF name \in DOMAIN obj THEN obj[name] ELSE <<>>

mergedReplaces(model, modelInfo, name) == section(modelInfo, name)

\* { ...model.<name>, ...modelInfo.<name> }
merged(model, modelInfo, name) ==
    Spread(section(model, name), section(modelInfo, name))

\* updateModelInfo(modelInfo): [threw, fs, ret]
updateModelInfo(f, modelInfo) ==
    IF \/ "id" \notin DOMAIN modelInfo
       \/ "file_path" \notin DOMAIN modelInfo
       \/ ~existsSync(f, modelInfo.file_path)
       \/ ~parses(f[modelInfo.file_path])
    THEN [threw |-> TRUE, fs |-> f, ret |-> Undefined]
    ELSE
    LET model == f[modelInfo.file_path].data[2]
        updatedModel ==
            omit([parameters |-> merged(model, modelInfo, "parameters"),
                  settings |-> merged(model, modelInfo, "settings"),
                  metadata |-> merged(model, modelInfo, "metadata")]
                 @@ Spread(model, modelInfo),
                 {"file_path", "file_name"})
    IN  [threw |-> FALSE,
         fs |-> writeFileSync(f, modelInfo.file_path, <<"json", updatedModel>>),
         ret |-> Some(updatedModel)]

\* partial updates a caller sends
Partials ==
    {[settings |-> [ctx_len |-> 8192]],
     [settings |-> [ctx_len |-> 8192, ngl |-> 1],
      file_name |-> _modelMetadataFileName],
     [parameters |-> [max_tokens |-> 1], metadata |-> [author |-> "USER"]]}

UpdateModelInfo ==
    /\ ops < MaxOps
    /\ \E file_path \in DescriptorPaths(fs) \cup {StalePath}, partial \in Partials :
          LET modelInfo == [id |-> baseName(dirName(file_path)),
                            file_path |-> file_path] @@ partial
              r == updateModelInfo(fs, modelInfo)
          IN  /\ fs' = r.fs
              /\ lastOp' = Op("updateModelInfo", modelInfo,
                              IF r.threw THEN <<"threw">> ELSE <<"ok">>)
    /\ synthesized' = stillSynthesized(fs')
    /\ ops' = ops + 1
    /\ UNCHANGED <<ext, clock, eventLog, downloadRequests, polling, baseApiUrl>>
    /\ UNCHANGED <<importVars, pollVars, builderVars>>

----------------------------------------------------------------------------
(* Download orchestrator: downloadModel *)

_supportedGpuArch == {"ampere", "ada"}

UrlBar == <<<<"https:">>, <<"hf.co">>, <<"bar", ".gguf">>>>
UrlBaz == <<<<"https:">>, <<"hf.co">>, <<"baz", ".gguf">>>>
UrlTrt1 == <<<<"https:">>, <<"hf.co">>, <<"<os>">>, <<"<gpuarch>">>, <<"trt", ".engine">>>>
UrlTrt2 == <<<<"https:">>, <<"hf.co">>, <<"<gpuarch>">>, <<"config">>>>

\* gguf(url): the header served at url; it rejects for anything else
ggufServes(url) == url = UrlBaz

\* extractFileName(url, fileExtension) of ./helpers/path: the last segment of
\* the url, with the extension appended when it does not end with it
extractFileName(url, fileExtension) ==
    IF endsWith([i \in 1..Len(baseName(url)) |-> toLowerCase(baseName(url)[i])],
                fileExtension)
    THEN baseName(url)
    ELSE baseName(url) \o <<fileExtension>>

\* url.replace(/<os>/g, os).replace(/<gpuarch>/g, gpuArch)
replacePlaceholders(url, os, gpuArch) ==
    [i \in 1..Len(url) |->
        [j \in 1..Len(url[i]) |->
            IF url[i][j] = "<os>" THEN os
            ELSE IF url[i][j] = "<gpuarch>" THEN gpuArch
            ELSE url[i][j]]]

gpuRejectedAnyArch(gpuSettings) ==
    \/ gpuSettings = Undefined
    \/ Len(gpuSettings[1].gpus) = 0
    \/ ~includes([i \in 1..Len(gpuSettings[1].gpus[1].name) |->
                     toLowerCase(gpuSettings[1].gpus[1].name[i])], "nvidia")
    \/ "arch" \notin DOMAIN gpuSettings[1].gpus[1]

\* the GPU checks of lines 203-225: TRUE when downloadModel returns early
gpuRejected(gpuSettings) ==
    \/ gpuSettings = Undefined
    \/ Len(gpuSettings[1].gpus) = 0
    \/ ~includes([i \in 1..Len(gpuSettings[1].gpus[1].name) |->
                     toLowerCase(gpuSettings[1].gpus[1].name[i])], "nvidia")
    \/ "arch" \notin DOMAIN gpuSettings[1].gpus[1]
    \/ gpuSettings[1].gpus[1].arch \notin _supportedGpuArch

DownloadRequest(url, root, localPath, modelId) ==
    [url |-> url, root |-> root, localPath |-> localPath, modelId |-> modelId]

\* the folder a download lands in: dirName(model.file_path) or modelDirPath
targetDir(model) ==
    IF "file_path" \in DOMAIN model THEN dirName(model.file_path) ELSE <<model.id>>

multiSourceRequestsFirstOnly(model) ==
    <<DownloadRequest(model.sources[1].url, "file://models",
                      joinPath(targetDir(model), model.sources[1].filename),
                      model.id)>>

\* lines 241-260: one request per source; without a filename the local path is
\* the bare extracted file name
multiSourceRequests(model) ==
    [i \in 1..Len(model.sources) |->
        IF "filename" \in DOMAIN model.sources[i]
        THEN DownloadRequest(model.sources[i].url, "file://models",
                             joinPath(targetDir(model), model.sources[i].filename),
                             model.id)
        ELSE DownloadRequest(model.sources[i].url, "",
                             <<extractFileName(model.sources[i].url,
                                               _supportedModelFormat)>>,
                             model.id)]

\* lines 263-275
singleSourceRequest(model) ==
    DownloadRequest(model.sources[1].url, "file://models",
                    joinPath(targetDir(model),
                             extractFileName(model.sources[1].url,
                                             _supportedModelFormat)),
                    model.id)

DownloadResult(f, threw, wrote, requests, polls) ==
    [fs |-> f, threw |-> threw, wrote |-> wrote, requests |-> requests,
     polls |-> polls]

downloadModelOverwrites(f, model, gpuSettings, hasBaseApiUrl) ==
    LET modelDirPath == <<model.id>>
        f1 == mkdir(f, modelDirPath)
        modelJsonPath == IF "file_path" \in DOMAIN model THEN model.file_path
                         ELSE joinPath(modelDirPath, _modelMetadataFileName)
        absent == TRUE
        updatedModel == retrieveGGUFMetadata(Some("llama32"))
        model1 == IF absent
                  THEN [model EXCEPT
                          !.settings = Spread(model.settings, updatedModel.settings),
                          !.parameters = Spread(model.parameters,
                                                updatedModel.parameters)]
                  ELSE model
        f2 == IF absent THEN writeFileSync(f1, modelJsonPath, <<"json", model1>>)
              ELSE f1
        isTrt == model.engine = "nitro_tensorrt_llm"
        model2 == IF isTrt /\ ~gpuRejected(gpuSettings)
                  THEN [model1 EXCEPT !.sources =
                          [i \in 1..Len(model1.sources) |->
                              [model1.sources[i] EXCEPT !.url =
                                  replacePlaceholders(model1.sources[i].url, "windows",
                                                      gpuSettings[1].gpus[1].arch)]]]
                  ELSE model1
    IN  IF absent /\ (~ggufServes(model.sources[1].url)
                        \/ ~existsSync(f1, dirName(modelJsonPath)))
        THEN DownloadResult(f1, TRUE, FALSE, <<>>, {})
        ELSE IF isTrt /\ gpuRejected(gpuSettings)
        THEN DownloadResult(f2, FALSE, absent, <<>>, {})
        ELSE IF Len(model2.sources) > 1
        THEN DownloadResult(f2, FALSE, absent, multiSourceRequests(model2), {})
        ELSE DownloadResult(f2, FALSE, absent, <<singleSourceRequest(model2)>>,
                            IF hasBaseApiUrl THEN {model.id} ELSE {})

\* downloadModel(model, gpuSettings, network) with window.core.api.baseApiUrl
\* set or not: the filesystem it leaves, whether it rejected, whether it wrote
\* the descriptor, the requests handed to downloadFile and the ids polled
downloadModel(f, model, gpuSettings, hasBaseApiUrl) ==
    LET modelDirPath == <<model.id>>
        f1 == mkdir(f, modelDirPath)
        modelJsonPath == IF "file_path" \in DOMAIN model THEN model.file_path
                         ELSE joinPath(modelDirPath, _modelMetadataFileName)
        absent == ~existsSync(f1, modelJsonPath)
        updatedModel == retrieveGGUFMetadata(Some("llama32"))
        model1 == IF absent
                  THEN [model EXCEPT
                          !.settings = Spread(model.settings, updatedModel.settings),
                          !.parameters = Spread(model.parameters,
                                                updatedModel.parameters)]
                  ELSE model
        f2 == IF absent THEN writeFileSync(f1, modelJsonPath, <<"json", model1>>)
              ELSE f1
        isTrt == model.engine = "nitro_tensorrt_llm"
        model2 == IF isTrt /\ ~gpuRejected(gpuSettings)
                  THEN [model1 EXCEPT !.sources =
                          [i \in 1..Len(model1.sources) |->
                              [model1.sources[i] EXCEPT !.url =
                                  replacePlaceholders(model1.sources[i].url, "windows",
                                                      gpuSettings[1].gpus[1].arch)]]]
                  ELSE model1
    IN  IF absent /\ (~ggufServes(model.sources[1].url)
                        \/ ~existsSync(f1, dirName(modelJsonPath)))
        THEN DownloadResult(f1, TRUE, FALSE, <<>>, {})
        ELSE IF isTrt /\ gpuRejected(gpuSettings)
        THEN DownloadResult(f2, FALSE, absent, <<>>, {})
        ELSE IF Len(model2.sources) > 1
        THEN DownloadResult(f2, FALSE, absent, multiSourceRequests(model2), {})
        ELSE DownloadResult(f2, FALSE, absent, <<singleSourceRequest(model2)>>,
                            IF hasBaseApiUrl THEN {model.id} ELSE {})

CatalogBar ==
    [object |-> "model",
     format |-> "gguf",
     id |-> <<"bar">>,
     name |-> <<"bar">>,
     sources |-> <<[url |-> UrlBar, filename |-> <<"bar", ".gguf">>]>>,
     settings |-> [ctx_len |-> 2048, prompt_template |-> "bar-template"],
     parameters |-> [max_tokens |-> 1024, stop |-> <<"</s>">>],
     created |-> 0,
     description |-> "catalog",
     metadata |-> [author |-> "Jan", tags |-> <<>>, size |-> 1],
     engine |-> "nitro"]

CatalogTrt ==
    [CatalogBar EXCEPT
        !.id = <<"trt">>,
        !.name = <<"trt">>,
        !.sources = <<[url |-> UrlTrt1, filename |-> <<"trt", ".engine">>],
                      [url |-> UrlTrt2]>>,
        !.engine = "nitro_tensorrt_llm"]

HubBaz ==
    [CatalogBar EXCEPT
        !.id = <<"baz">>,
        !.name = <<"baz">>,
        !.sources = <<[url |-> UrlBaz]>>,
        !.metadata = [author |-> "hub", tags |-> <<>>, size |-> 1]]

asModelFile(model) ==
    [file_path |-> <<model.id, _modelMetadataFileName>>,
     file_name |-> _modelMetadataFileName] @@ model

\* the models a caller asks to download: as listed (with the computed
\* file_path and file_name) or as built from a hub entry
DownloadModels == {asModelFile(CatalogBar), asModelFile(CatalogTrt),
                   asModelFile(HubBaz), HubBaz}

Gpu(name, arch) == Some([gpus |-> <<[name |-> name, arch |-> arch]>>])

GpuSettings ==
    {Undefined,
     Some([gpus |-> <<>>]),
     Gpu(<<"NVIDIA", " ", "RTX">>, "ampere"),
     Gpu(<<"AMD", " ", "RX">>, "ada"),
     Gpu(<<"NVIDIA", " ", "GTX">>, "turing"),
     Some([gpus |-> <<[name |-> <<"NVIDIA", " ", "RTX">>]>>])}

DownloadModel ==
    /\ ops < MaxOps
    /\ \E model \in DownloadModels :
       \E gpuSettings \in IF model.engine = "nitro_tensorrt_llm" THEN GpuSettings
                          ELSE {Undefined} :
          \E r \in {downloadModel(fs, model, gpuSettings, baseApiUrl)} :
              /\ fs' = r.fs
              /\ eventLog' = IF r.wrote
                             THEN emit(eventLog, Event("OnModelsUpdate", 0, Undefined,
                                                       Undefined, <<>>))
                             ELSE eventLog
              /\ downloadRequests' = downloadRequests \o r.requests
              /\ polling' = polling \cup r.polls
              /\ lastOp' = Op("downloadModel",
                              [model |-> model, gpuSettings |-> gpuSettings],
                              [threw |-> r.threw, wrote |-> r.wrote,
                               requests |-> r.requests, polls |-> r.polls])
    /\ synthesized' = stillSynthesized(fs')
    /\ ops' = ops + 1
    /\ UNCHANGED <<ext, clock, baseApiUrl>>
    /\ UNCHANGED <<importVars, pollVars, builderVars>>

----------------------------------------------------------------------------
(* Download orchestrator: cancelModelDownload *)

cancelPathDescriptor(modelId) == <<modelId, _modelMetadataFileName>>

\* joinPath([_homeDir, modelId, modelId])
cancelPath(modelId) == <<modelId, modelId>>

CancelResult(f, steps, threw) == [fs |-> f, steps |-> steps, threw |-> threw]

\* cancelModelDownload(modelId); abortRejects says whether abortDownload
\* rejects.  steps lists the calls made inside the try block, in order
cancelModelDownload(f, modelId, abortRejects) ==
    IF abortRejects
    THEN CancelResult(f, <<"abortDownload">>, FALSE)        \* caught
    ELSE IF existsSync(f, cancelPath(modelId)) /\ f[cancelPath(modelId)].kind = "file"
    THEN CancelResult(unlinkSync(f, cancelPath(modelId)),
                      <<"abortDownload", "unlinkSync">>, FALSE)
    ELSE CancelResult(f, <<"abortDownload", "unlinkSync">>, FALSE)   \* caught

CancelIds == {<<"jan">>, <<"bar">>, <<"renamed">>}

CancelModelDownload ==
    /\ ops < MaxOps
    /\ \E modelId \in CancelIds, abortRejects \in BOOLEAN :
       \E r \in {cancelModelDownload(fs, modelId, abortRejects)} :
          /\ fs' = r.fs
          /\ lastOp' = Op("cancelModelDownload",
                          [modelId |-> modelId, abortRejects |-> abortRejects],
                          [steps |-> r.steps, threw |-> r.threw])
    /\ synthesized' = stillSynthesized(fs')
    /\ ops' = ops + 1
    /\ UNCHANGED <<ext, clock, eventLog, downloadRequests, polling, baseApiUrl>>
    /\ UNCHANGED <<importVars, pollVars, builderVars>>

----------------------------------------------------------------------------
(* The registry: listing, download, update and delete calls in any order *)

BinFile(hdr) == FileNode(1, <<"bin", hdr>>)

\* a catalog model with its binary, a partial download and a sub-folder; a
\* folder that holds only a binary; a GPU-engine catalog model
TreeFull ==
    (<<>> :> DirNode)
    @@ (<<<<"bar">>>> :> DirNode)
    @@ (<<<<"bar">>, _modelMetadataFileName>> :> FileNode(1, <<"json", CatalogBar>>))
    @@ (<<<<"bar">>, <<"bar", ".gguf">>>> :> BinFile("llama32"))
    @@ (<<<<"bar">>, <<"bar", ".gguf", ".download">>>> :> BinFile("partial"))
    @@ (<<<<"bar">>, <<"sub">>>> :> DirNode)
    @@ (<<<<"foo">>>> :> DirNode)
    @@ (<<<<"foo">>, <<"foo", ".gguf">>>> :> BinFile("llama32"))
    @@ (<<<<"trt">>>> :> DirNode)
    @@ (<<<<"trt">>, _modelMetadataFileName>> :> FileNode(1, <<"json", CatalogTrt>>))

TreeBinaryOnly ==
    (<<>> :> DirNode)
    @@ (<<<<"foo">>>> :> DirNode)
    @@ (<<<<"foo">>, <<"foo", ".gguf">>>> :> BinFile("bare"))

\* a descriptor of the old format: one source_url and no sources, for a
\* remote engine
LegacyHelper ==
    [source_url |-> UrlBar]
    @@ omit([CatalogBar EXCEPT !.id = <<"helper">>, !.name = <<"helper">>,
                               !.engine = "openai"],
            {"sources"})

\* a catalog model with two sources whose folder holds one file, named like
\* the folder
CatalogJan ==
    [CatalogBar EXCEPT
        !.id = <<"jan">>,
        !.name = <<"jan">>,
        !.sources = <<[url |-> UrlBar, filename |-> <<"bar", ".gguf">>],
                      [url |-> UrlBaz, filename |-> <<"baz", ".gguf">>]>>]

\* a download in progress, a descriptor that is not JSON, a descriptor of the
\* old format, and a binary named like its folder
TreeLegacy ==
    (<<>> :> DirNode)
    @@ (<<<<"baz">>>> :> DirNode)
    @@ (<<<<"baz">>, _modelMetadataFileName>> :> FileNode(1, <<"json", HubBaz>>))
    @@ (<<<<"baz">>, <<"baz", ".gguf", ".download">>>> :> BinFile("partial"))
    @@ (<<<<"gone">>>> :> DirNode)
    @@ (<<<<"gone">>, _modelMetadataFileName>> :> FileNode(1, <<"text">>))
    @@ (<<<<"helper">>>> :> DirNode)
    @@ (<<<<"helper">>, _modelMetadataFileName>>
            :> FileNode(1, <<"json", LegacyHelper>>))
    @@ (<<<<"jan">>>> :> DirNode)
    @@ (<<<<"jan">>, _modelMetadataFileName>> :> FileNode(1, <<"json", CatalogJan>>))
    @@ (<<<<"jan">>, <<"jan">>>> :> BinFile("llama32"))

Init ==
    /\ fs \in {TreeFull, TreeBinaryOnly, TreeLegacy}
    /\ ext = ExtFiles
    /\ clock = 0
    /\ eventLog = <<>>
    /\ lastOp = [op |-> "none"]
    /\ synthesized = <<>>
    /\ downloadRequests = <<>>
    /\ polling = {}
    /\ baseApiUrl \in BOOLEAN
    /\ ops = 0
    /\ ImportIdle /\ PollIdle /\ BuilderIdle

Next ==
    \/ GetConfiguredModels
    \/ GetDownloadedModels
    \/ ClockTicks
    \/ DeleteModel
    \/ UpdateModelInfo
    \/ DownloadModel
    \/ CancelModelDownload

Spec == Init /\ [][Next]_vars

----------------------------------------------------------------------------
(* Claims about the registry *)

Sections == {"settings", "parameters", "metadata"}

UpdatedOk == lastOp.op = "updateModelInfo" /\ lastOp.ret = <<"ok">>

\* C2: merge, not replace.  After updateModelInfo(P) on a persisted descriptor
\* D, the descriptor on disk has, in each of settings, parameters and metadata,
\* every key of D that P does not name with D's value, every key P names with
\* P's value, and no other key.
C2_MergeNotReplace ==
    UpdatedOk =>
        LET D == lastOp.pre[lastOp.arg.file_path].data[2]
            P == lastOp.arg
            A == fs[lastOp.arg.file_path].data[2]
        IN  \A s \in Sections :
               /\ s \in DOMAIN A
               /\ DOMAIN A[s] = DOMAIN section(D, s) \cup DOMAIN section(P, s)
               /\ \A k \in DOMAIN section(D, s) :
                     k \notin DOMAIN section(P, s) => A[s][k] = D[s][k]
               /\ \A k \in DOMAIN section(P, s) : A[s][k] = P[s][k]

\* a partial {settings: {ctx_len: 8192}} met a descriptor with other settings
\* keys and another ctx_len
C2_Witness ==
    /\ UpdatedOk
    /\ DOMAIN lastOp.arg = {"id", "file_path", "settings"}
    /\ lastOp.arg.settings = [ctx_len |-> 8192]
    /\ lastOp.pre[lastOp.arg.file_path].data[2].settings.ctx_len = 2048
    /\ "prompt_template" \in DOMAIN lastOp.pre[lastOp.arg.file_path].data[2].settings
    /\ fs[lastOp.arg.file_path].data[2].settings.ctx_len = 8192

UserAuthors == {"User", "user", "USER"}

Deleted ==
    /\ lastOp.op = "deleteModel"
    /\ existsSync(lastOp.pre, lastOp.arg.file_path)
    /\ parses(lastOp.pre[lastOp.arg.file_path])

\* C8: delete policy.  deleteModel on a descriptor whose persisted author is
\* the user-import marker removes the whole folder; on any other descriptor
\* the folder stays, model.json stays with the same contents, and every other
\* file that was directly in the folder is gone.
C8_DeletePolicy ==
    Deleted =>
        LET pre == lastOp.pre
            jsonPath == lastOp.arg.file_path
            dir == dirName(jsonPath)
        IN  IF pre[jsonPath].data[2].metadata.author \in UserAuthors
            THEN \A q \in DOMAIN fs : ~isPrefix(dir, q)
            ELSE /\ existsSync(fs, dir)
                 /\ fs[dir].kind = "dir"
                 /\ existsSync(fs, jsonPath)
                 /\ fs[jsonPath] = pre[jsonPath]
                 /\ \A q \in DOMAIN pre :
                       (/\ Len(q) = Len(dir) + 1
                        /\ isPrefix(dir, q)
                        /\ q # jsonPath
                        /\ pre[q].kind = "file") => q \notin DOMAIN fs

\* a catalog folder that held a binary and a partial download was cleaned
C8_Witness ==
    /\ Deleted
    /\ lastOp.pre[lastOp.arg.file_path].data[2].metadata.author = "Jan"
    /\ \E q \in DOMAIN lastOp.pre :
          /\ isPrefix(dirName(lastOp.arg.file_path), q)
          /\ lastOp.pre[q].kind = "file"
          /\ q # lastOp.arg.file_path
          /\ q \notin DOMAIN fs

\* a user-imported folder was removed as a whole
C8_WitnessUserImport ==
    /\ Deleted
    /\ lastOp.pre[lastOp.arg.file_path].data[2].metadata.author \in UserAuthors
    /\ ~existsSync(fs, dirName(lastOp.arg.file_path))

\* C9: no descriptor file on disk contains a file_path or file_name member.
C9_NoComputedFieldsPersisted ==
    \A q \in DOMAIN fs :
        parses(fs[q]) => DOMAIN fs[q].data[2] \cap {"file_path", "file_name"} = {}

Listed == lastOp.op = "getModelsMetadata"

Returned(model) == \E i \in 1..Len(lastOp.ret) : lastOp.ret[i] = model

\* C10: idempotent synthesis.  A listing pass that finds a binary-only folder
\* writes the descriptor it returns; a later pass over a folder whose
\* descriptor an earlier pass synthesized does not synthesize or write again,
\* leaves the file as it was, and returns that descriptor (with the computed
\* file_path and file_name attached).
C10_IdempotentSynthesis ==
    Listed =>
        /\ \A d \in DOMAIN synthesized \ DOMAIN lastOp.preSynth :
              /\ ~existsSync(lastOp.pre, <<d, _modelMetadataFileName>>)
              /\ fs[<<d, _modelMetadataFileName>>].data = <<"json", synthesized[d]>>
              /\ Returned(synthesized[d])
        /\ \A d \in DOMAIN lastOp.preSynth :
              /\ d \in DOMAIN synthesized
              /\ synthesized[d] = lastOp.preSynth[d]
              /\ fs[<<d, _modelMetadataFileName>>] =
                     lastOp.pre[<<d, _modelMetadataFileName>>]
              /\ fs[<<d, _modelMetadataFileName>>].data = <<"json", synthesized[d]>>
              /\ Returned([file_path |-> <<d, _modelMetadataFileName>>,
                           file_name |-> _modelMetadataFileName]
                          @@ synthesized[d])

\* a second pass ran later than the pass that synthesized the descriptor
C10_Witness ==
    /\ Listed
    /\ \E d \in DOMAIN lastOp.preSynth :
          /\ lastOp.preSynth[d].created < lastOp.at
          /\ lastOp.preSynth[d].settings.llama_model_path = <<"foo", ".gguf">>

----------------------------------------------------------------------------
(* Download orchestrator: startPollingDownloadProgress *)

DownloadStates == {"downloading", "end", "error"}

stopsOnEndOnly(downloadState) == downloadState = "end"

\* the two branches of the handler that clear the interval and resolve
stops(downloadState) == downloadState = "end" \/ downloadState = "error"

\* the event the handler emits for a polled state
eventFor(downloadState) ==
    IF downloadState = "end" THEN "onFileDownloadSuccess"
    ELSE IF downloadState = "error" THEN "onFileDownloadError"
    ELSE "onFileDownloadUpdate"

DownloadEvent(name, state) == [name |-> name, state |-> state]

pending == responses["downloading"] + responses["end"] + responses["error"]

handledCount == IF lastHandled.op = "none" THEN 0 ELSE lastHandled.count

\* the 3000 ms wait is over and setInterval arms the timer
SetInterval ==
    /\ interval = "delay"
    /\ interval' = "armed"
    /\ UNCHANGED <<inflight, responses, remote, resolved, attempts, lastHandled,
                   terminalSeen, downloadEvents>>
    /\ UNCHANGED <<fs, ext, clock, eventLog, importVars, regVars, builderVars>>

\* the interval fires and the callback calls fetch
PollTick ==
    /\ interval = "armed"
    /\ attempts < MaxAttempts
    /\ inflight + pending < MaxInFlight
    /\ inflight' = inflight + 1
    /\ attempts' = attempts + 1
    /\ UNCHANGED <<interval, responses, remote, resolved, lastHandled,
                   terminalSeen, downloadEvents>>
    /\ UNCHANGED <<fs, ext, clock, eventLog, importVars, regVars, builderVars>>

\* the download on the server finishes or fails
RemoteChanges ==
    /\ remote = "downloading"
    /\ remote' \in {"end", "error"}
    /\ UNCHANGED <<interval, inflight, responses, resolved, attempts, lastHandled,
                   terminalSeen, downloadEvents>>
    /\ UNCHANGED <<fs, ext, clock, eventLog, importVars, regVars, builderVars>>

\* a fetch is answered with the state the server is in
FetchResolves ==
    /\ inflight > 0
    /\ inflight' = inflight - 1
    /\ responses' = [responses EXCEPT ![remote] = @ + 1]
    /\ UNCHANGED <<interval, remote, resolved, attempts, lastHandled,
                   terminalSeen, downloadEvents>>
    /\ UNCHANGED <<fs, ext, clock, eventLog, importVars, regVars, builderVars>>

\* a fetch rejects: there is no .catch, the handler does not run
FetchRejects ==
    /\ inflight > 0
    /\ inflight' = inflight - 1
    /\ UNCHANGED <<interval, responses, remote, resolved, attempts, lastHandled,
                   terminalSeen, downloadEvents>>
    /\ UNCHANGED <<fs, ext, clock, eventLog, importVars, regVars, builderVars>>

\* the .then handler of lines 390-407 on an answer with this downloadState
Then(downloadState) ==
    /\ responses[downloadState] > 0
    /\ responses' = [responses EXCEPT ![downloadState] = @ - 1]
    /\ downloadEvents' =
           Append(downloadEvents,
                  DownloadEvent(eventFor(downloadState),
                                [downloadState |-> downloadState]))
    /\ interval' = IF stops(downloadState) THEN "cleared" ELSE interval
    /\ resolved' = (resolved \/ stops(downloadState))
    /\ lastHandled' = [op |-> "then", downloadState |-> downloadState,
                       count |-> handledCount + 1]
    /\ terminalSeen' = (terminalSeen \/ downloadState \in {"end", "error"})
    /\ UNCHANGED <<inflight, remote, attempts>>
    /\ UNCHANGED <<fs, ext, clock, eventLog, importVars, regVars, builderVars>>

PollInit ==
    /\ fs = FsWith({})
    /\ ext = ExtFiles
    /\ clock = 0
    /\ eventLog = <<>>
    /\ interval = "delay"
    /\ inflight = 0
    /\ responses = [s \in DownloadStates |-> 0]
    /\ remote \in DownloadStates
    /\ resolved = FALSE
    /\ attempts = 0
    /\ lastHandled = [op |-> "none"]
    /\ terminalSeen = FALSE
    /\ downloadEvents = <<>>
    /\ ImportIdle /\ RegIdle /\ BuilderIdle

PollNext ==
    \/ SetInterval
    \/ PollTick
    \/ RemoteChanges
    \/ FetchResolves
    \/ FetchRejects
    \/ \E downloadState \in DownloadStates : Then(downloadState)

\* a promise reaction that is queued runs
SpecPollFair ==
    /\ PollInit
    /\ [][PollNext]_vars
    /\ \A downloadState \in DownloadStates : WF_vars(Then(downloadState))

MappedEvent(e) ==
    e.name = (CASE e.state.downloadState = "end" -> "onFileDownloadSuccess"
                [] e.state.downloadState = "error" -> "onFileDownloadError"
                [] OTHER -> "onFileDownloadUpdate")

C6_Mapping ==
    /\ Len(downloadEvents) = handledCount
    /\ \A i \in 1..Len(downloadEvents) : MappedEvent(downloadEvents[i])
    /\ lastHandled.op = "then" =>
          downloadEvents[Len(downloadEvents)].state.downloadState
              = lastHandled.downloadState

C6_ClearedIffTerminal ==
    /\ interval = "cleared" <=> terminalSeen
    /\ resolved <=> terminalSeen

TerminalReported == responses["end"] + responses["error"] > 0

\* C6: remote polling.  Every answer handled emits exactly one event, success
\* for 'end', error for 'error', update otherwise; the timer is cleared (and
\* the promise resolved) exactly when an 'end' or 'error' answer has been
\* handled, however many times the timer has fired; and once the remote has
\* answered 'end' or 'error' the timer is eventually cleared and the promise
\* resolved.
C6_RemotePolling ==
    /\ [](C6_Mapping /\ C6_ClearedIffTerminal)
    /\ TerminalReported ~> (interval = "cleared" /\ resolved)

\* the timer has fired as often as the model lets it, every answer said
\* 'downloading' and was handled, and the timer is still armed
C6_Witness ==
    /\ attempts = MaxAttempts
    /\ inflight = 0
    /\ pending = 0
    /\ Len(downloadEvents) = MaxAttempts
    /\ \A i \in 1..Len(downloadEvents) :
          downloadEvents[i].name = "onFileDownloadUpdate"
    /\ interval = "armed"
    /\ ~resolved

\* an 'error' answer was handled: error event, timer cleared, promise resolved
C6_WitnessError ==
    /\ lastHandled.op = "then"
    /\ lastHandled.downloadState = "error"
    /\ downloadEvents[Len(downloadEvents)].name = "onFileDownloadError"
    /\ interval = "cleared"
    /\ resolved

----------------------------------------------------------------------------
(* REST helper: getBuilder, readModelMetadata, retrieveBuilder, deleteBuilder *)

RouteConfiguration(dir, metadataFileName, object) ==
    [dirName |-> dir, metadataFileName |-> metadataFileName,
     delete |-> [object |-> object]]

\* the configurations the routes call the helper with
RouteConfigurations ==
    {RouteConfiguration("models", <<"model.json">>, "model"),
     RouteConfiguration("assistants", <<"assistant.json">>, "assistant"),
     RouteConfiguration("threads", <<"thread.json">>, "thread")}

\* join(getJanDataFolderPath(), configuration.dirName)
directoryPath(configuration) == <<<<configuration.dirName>>>>

readModelMetadata(jd, path) ==
    IF existsSync(jd, path) THEN Some(jd[path].data) ELSE Undefined

\* getBuilder(configuration): the parsed descriptors of the registry
getBuilder(jd, configuration) ==
    IF ~existsSync(jd, directoryPath(configuration))
    THEN <<>>
    ELSE IF jd[directoryPath(configuration)].kind # "dir"
    THEN <<>>                                  \* readdirSync throws, caught
    ELSE
    LET allDirectories ==
            SelectSeq(sort(readdirSync(jd, directoryPath(configuration))),
                      LAMBDA file : file # <<".DS_Store">>)
        jsonPath(i) == joinPath(joinPath(directoryPath(configuration),
                                         allDirectories[i]),
                                configuration.metadataFileName)
        results == SelectSeq([i \in 1..Len(allDirectories) |->
                                 readModelMetadata(jd, jsonPath(i))],
                             LAMBDA data : data # Undefined)
        parsed == SelectSeq(results, LAMBDA result : result[1][1] = "json")
    IN  IF \E i \in 1..Len(allDirectories) :
              existsSync(jd, jsonPath(i)) /\ jd[jsonPath(i)].kind = "dir"
        THEN <<>>                              \* readFileSync throws, caught
        ELSE [i \in 1..Len(parsed) |-> parsed[i][1][2]]

retrieveBuilderTakesFirst(jd, configuration, id) ==
    LET data == getBuilder(jd, configuration)
    IN  IF data = <<>> THEN Undefined ELSE Some(data[1])

\* retrieveBuilder(configuration, id)
retrieveBuilder(jd, configuration, id) ==
    LET data == getBuilder(jd, configuration)
        filteredData == SelectSeq(data, LAMBDA d : "id" \in DOMAIN d /\ d.id = id)
    IN  IF filteredData = <<>> THEN Undefined ELSE Some(filteredData[1])

isProtectedAnywhere(configuration, id) == id = <<"jan">>

\* configuration.dirName === 'assistants' && id === 'jan'
isProtected(configuration, id) ==
    configuration.dirName = "assistants" /\ id = <<"jan">>

DeleteResult(jd, ret) == [janData |-> jd, ret |-> ret]

\* deleteBuilder(configuration, id); enoent says whether rmdirSync with
\* { recursive: true } throws on a path that does not exist (it depends on
\* the Node.js version)
deleteBuilder(jd, configuration, id, enoent) ==
    IF isProtected(configuration, id)
    THEN DeleteResult(jd, Some([message |-> "Cannot delete Jan assistant"]))
    ELSE
    LET data == retrieveBuilder(jd, configuration, id)
        objectPath == joinPath(directoryPath(configuration), id)
    IN  IF data = Undefined
        THEN DeleteResult(jd, Some([message |-> "Not found"]))
        ELSE IF ~existsSync(jd, objectPath) /\ enoent
        THEN DeleteResult(jd, Undefined)       \* caught: console.error
        ELSE DeleteResult(rm(jd, objectPath),
                          Some([id |-> id, object |-> configuration.delete.object,
                                deleted |-> TRUE]))

BuilderIds == {<<"jan">>, <<"helper">>, <<"gone">>}

DeleteBuilder ==
    /\ \E configuration \in RouteConfigurations, id \in BuilderIds,
          enoent \in BOOLEAN :
          LET r == deleteBuilder(janData, configuration, id, enoent)
          IN  /\ janData' = r.janData
              /\ reply' = [op |-> "deleteBuilder", configuration |-> configuration,
                           id |-> id, ret |-> r.ret, pre |-> janData]
    /\ UNCHANGED <<fs, ext, clock, eventLog, importVars, regVars, pollVars>>

\* one object of a registry: its folder and its descriptor file
Object(dir, folder, file, data) ==
    (<<<<dir>>>> :> DirNode)
    @@ (<<<<dir>>, folder>> :> DirNode)
    @@ (<<<<dir>>, folder, file>> :> FileNode(1, data))

BuilderObjects ==
    <<Object("assistants", <<"jan">>, <<"assistant.json">>,
             <<"json", [id |-> <<"jan">>]>>),
      Object("assistants", <<"helper">>, <<"assistant.json">>,
             <<"json", [id |-> <<"helper">>]>>),
      Object("models", <<"jan">>, <<"model.json">>, <<"json", [id |-> <<"jan">>]>>),
      Object("threads", <<"renamed">>, <<"thread.json">>,
             <<"json", [id |-> <<"jan">>]>>),
      Object("models", <<"helper">>, <<"model.json">>, <<"text">>),
      Object("threads", <<"jan">>, <<"thread.json">>,
             <<"json", [id |-> <<"helper">>]>>)>>

BuilderBase ==
    (<<>> :> DirNode)
    @@ (<<<<"assistants">>>> :> DirNode)
    @@ (<<<<"assistants">>, <<".DS_Store">>>> :> FileNode(1, <<"text">>))

RECURSIVE withObjects(_, _)
withObjects(present, n) ==
    IF n = 0 THEN BuilderBase
    ELSE IF present[n] THEN BuilderObjects[n] @@ withObjects(present, n - 1)
    ELSE withObjects(present, n - 1)

\* every data folder that holds any of the objects
BuilderTrees ==
    {withObjects(present, Len(BuilderObjects)) :
        present \in [1..Len(BuilderObjects) -> BOOLEAN]}

BuilderInit ==
    /\ fs = FsWith({})
    /\ ext = ExtFiles
    /\ clock = 0
    /\ eventLog = <<>>
    /\ janData \in BuilderTrees
    /\ reply = [op |-> "none"]
    /\ ImportIdle /\ RegIdle /\ PollIdle

BuilderNext == DeleteBuilder

SpecBuilder == BuilderInit /\ [][BuilderNext]_vars

Rejection == Some([message |-> "Cannot delete Jan assistant"])

\* C7: protected delete.  deleteBuilder for id 'jan' in the 'assistants'
\* registry returns the rejection message and leaves the data folder as it
\* was, whatever the folder holds; for id 'jan' in any other registry it
\* never returns the rejection, and when that registry holds a folder 'jan'
\* whose descriptor has id 'jan' the folder is removed and the deletion
\* reported.
C7_ProtectedDelete ==
    (reply.op = "deleteBuilder" /\ reply.id = <<"jan">>) =>
        IF reply.configuration.dirName = "assistants"
        THEN reply.ret = Rejection /\ janData = reply.pre
        ELSE /\ reply.ret # Rejection
             /\ LET objectPath == <<<<reply.configuration.dirName>>, <<"jan">>>>
                    jsonPath == Append(objectPath, reply.configuration.metadataFileName)
                IN  (/\ jsonPath \in DOMAIN reply.pre
                     /\ reply.pre[jsonPath].data = <<"json", [id |-> <<"jan">>]>>)
                    => /\ reply.ret = Some([id |-> <<"jan">>,
                                            object |-> reply.configuration.delete.object,
                                            deleted |-> TRUE])
                       /\ \A q \in DOMAIN janData : ~isPrefix(objectPath, q)

\* the built-in assistant was there and its deletion was asked for
C7_Witness ==
    /\ reply.op = "deleteBuilder"
    /\ reply.id = <<"jan">>
    /\ reply.configuration.dirName = "assistants"
    /\ <<<<"assistants">>, <<"jan">>, <<"assistant.json">>>> \in DOMAIN reply.pre
    /\ <<<<"assistants">>, <<"jan">>, <<"assistant.json">>>> \in DOMAIN janData

\* a model with id 'jan' was deleted from the models registry
C7_WitnessOtherRegistry ==
    /\ reply.op = "deleteBuilder"
    /\ reply.id = <<"jan">>
    /\ reply.configuration.dirName = "models"
    /\ <<<<"models">>, <<"jan">>>> \in DOMAIN reply.pre
    /\ <<<<"models">>, <<"jan">>>> \notin DOMAIN janData

----------------------------------------------------------------------------
(* Claims about downloadModel *)

Downloaded == lastOp.op = "downloadModel"

\* the call got as far as handing requests to downloadFile
Submitted == Downloaded /\ Len(lastOp.ret.requests) > 0

\* the name a source asks for: its filename, else the last segment of its url
wantedName(source) ==
    IF "filename" \in DOMAIN source THEN source.filename
    ELSE extractFileName(source.url, _supportedModelFormat)

\* C11: download destination.  Every request downloadModel hands to
\* downloadFile, single-source or multi-source, has a local path under the
\* models root inside the model's folder (the folder of its file_path when it
\* has one), and its file name is the source's filename when given, else the
\* name derived from the last segment of the url.
C11_DownloadDestination ==
    Submitted =>
        \A i \in 1..Len(lastOp.ret.requests) :
            LET request == lastOp.ret.requests[i]
                source == [lastOp.arg.model.sources[i] EXCEPT !.url = request.url]
            IN  /\ request.root = "file://models"
                /\ dirName(request.localPath) = targetDir(lastOp.arg.model)
                /\ baseName(request.localPath) = wantedName(source)

IsGpuEngine == lastOp.arg.model.engine = "nitro_tensorrt_llm"

NvidiaTokens == {"NVIDIA", "Nvidia", "nvidia"}

\* one of the five conditions of the GPU gate holds for the GPU settings given
GpuCheckFails ==
    LET g == lastOp.arg.gpuSettings
    IN  \/ g = Undefined
        \/ Len(g[1].gpus) = 0
        \/ \A j \in 1..Len(g[1].gpus[1].name) : g[1].gpus[1].name[j] \notin NvidiaTokens
        \/ "arch" \notin DOMAIN g[1].gpus[1]
        \/ g[1].gpus[1].arch \notin {"ampere", "ada"}

\* the call neither rejected nor stopped at the GPU gate
ReachedFanOut ==
    /\ Downloaded
    /\ ~lastOp.ret.threw
    /\ ~(IsGpuEngine /\ GpuCheckFails)

\* C12: download fan-out.  A downloadModel call that reaches the submission
\* step hands downloadFile exactly one request per declared source, in source
\* order and for that source's url, all within the one call; with more than
\* one source no polling is started; polling is started exactly when there is
\* one source and baseApiUrl is set.
C12_FanOut ==
    ReachedFanOut =>
        LET sources == lastOp.arg.model.sources
            requests == lastOp.ret.requests
            before == Len(downloadRequests) - Len(requests)
        IN  /\ Len(requests) = Len(sources)
            /\ before >= 0
            /\ \A i \in 1..Len(requests) :
                  /\ downloadRequests[before + i] = requests[i]
                  /\ requests[i].modelId = lastOp.arg.model.id
                  /\ Len(requests[i].url) = Len(sources[i].url)
                  /\ baseName(requests[i].url) = baseName(sources[i].url)
                  /\ ~IsGpuEngine => requests[i].url = sources[i].url
            /\ Len(sources) > 1 => lastOp.ret.polls = {}
            /\ lastOp.ret.polls \subseteq {lastOp.arg.model.id}
            /\ lastOp.ret.polls # {} <=> (Len(sources) = 1 /\ baseApiUrl)
            /\ lastOp.ret.polls \subseteq polling

\* two sources, two requests, and no polling although baseApiUrl is set
C12_Witness ==
    /\ ReachedFanOut
    /\ Len(lastOp.arg.model.sources) = 2
    /\ Len(lastOp.ret.requests) = 2
    /\ baseApiUrl
    /\ lastOp.ret.polls = {}

\* one source and baseApiUrl set: polling started for the model
C12_WitnessPolling ==
    /\ ReachedFanOut
    /\ Len(lastOp.arg.model.sources) = 1
    /\ baseApiUrl
    /\ lastOp.ret.polls = {lastOp.arg.model.id}

CompletedBinaries(f, dir) ==
    {name \in readdirSync(f, dir) :
        /\ f[Append(dir, name)].kind = "file"
        /\ name[Len(name)] # ".download"
        /\ \E j \in 1..Len(name) : name[j] \in {".gguf", ".engine"}}

\* the binaries in the folder satisfy the source list: every source's file is
\* there by name, or there are as many completed binaries as sources
SatisfiedLocally(f, model) ==
    /\ existsSync(f, targetDir(model))
    /\ \/ \A i \in 1..Len(model.sources) :
             wantedName(model.sources[i]) \in CompletedBinaries(f, targetDir(model))
       \/ Cardinality(CompletedBinaries(f, targetDir(model))) >= Len(model.sources)

\* C14: offline-engine skip.  downloadModel for a model of an offline engine
\* whose folder already holds binaries that satisfy its source list submits
\* no download request.
C14_OfflineSkip ==
    (/\ Downloaded
     /\ lastOp.arg.model.engine \in {"nitro", "nitro_tensorrt_llm"}
     /\ SatisfiedLocally(lastOp.pre, lastOp.arg.model))
    => lastOp.ret.requests = <<>>

----------------------------------------------------------------------------
(* Claims about listing *)

ListedDownloaded == lastOp.op = "getDownloadedModels"

\* the folders of the root whose model.json parsed when the call started
ParsedFolders(f) ==
    {d \in readdirSync(f, <<>>) :
        /\ existsSync(f, <<d, _modelMetadataFileName>>)
        /\ parses(f[<<d, _modelMetadataFileName>>])}

ReturnedFrom(d) ==
    \E i \in 1..Len(lastOp.ret) :
        /\ "file_path" \in DOMAIN lastOp.ret[i]
        /\ lastOp.ret[i].file_path = <<d, _modelMetadataFileName>>

IsHttp(url) == Len(url) > 0 /\ url[1] \in {<<"http:">>, <<"https:">>}

----------------------------------------------------------------------------
(* Claims about cancelModelDownload *)

Cancelled == lastOp.op = "cancelModelDownload"

PartialBinary == <<lastOp.arg.modelId, lastOp.arg.modelId>>

\* C16: cancel.  cancelModelDownload asks for the abort first and removes the
\* file only after it; whether the abort rejects or the file is missing, it
\* does not raise, and every path other than models/<id>/<id> is on disk
\* afterwards exactly as before.
C16_Cancel ==
    Cancelled =>
        /\ ~lastOp.ret.threw
        /\ lastOp.ret.steps[1] = "abortDownload"
        /\ \A i \in 1..Len(lastOp.ret.steps) :
              lastOp.ret.steps[i] = "unlinkSync" => i > 1
        /\ (PartialBinary \in DOMAIN lastOp.pre /\ PartialBinary \notin DOMAIN fs)
              => lastOp.ret.steps = <<"abortDownload", "unlinkSync">>
        /\ DOMAIN fs \subseteq DOMAIN lastOp.pre
        /\ \A q \in DOMAIN lastOp.pre :
              q # PartialBinary => (q \in DOMAIN fs /\ fs[q] = lastOp.pre[q])

\* the abort went through and the file models/<id>/<id> was removed
C16_Witness ==
    /\ Cancelled
    /\ PartialBinary \in DOMAIN lastOp.pre
    /\ PartialBinary \notin DOMAIN fs

\* the abort rejected, the file stays
C16_WitnessAbortRejects ==
    /\ Cancelled
    /\ lastOp.arg.abortRejects
    /\ PartialBinary \in DOMAIN fs

\* the file was not there
C16_WitnessMissing ==
    /\ Cancelled
    /\ ~lastOp.arg.abortRejects
    /\ PartialBinary \notin DOMAIN lastOp.pre

----------------------------------------------------------------------------
(* Listing over damaged descriptors: getModelsMetadata and getBuilder *)

GetBuilder ==
    /\ \E configuration \in RouteConfigurations :
          reply' = [op |-> "getBuilder", configuration |-> configuration,
                    ret |-> getBuilder(janData, configuration), pre |-> janData]
    /\ UNCHANGED janData
    /\ UNCHANGED <<fs, ext, clock, eventLog, importVars, regVars, pollVars>>

\* tree with the files at the paths of S truncated to something that is not
\* JSON
damaged(tree, S) ==
    [q \in DOMAIN tree |-> IF q \in S THEN FileNode(1, <<"text">>) ELSE tree[q]]

\* the registry trees with any of their descriptors damaged
DamagedTrees ==
    UNION {{damaged(tree, S) : S \in SUBSET DescriptorPaths(tree)} :
              tree \in {TreeFull, TreeBinaryOnly, TreeLegacy}}

ListingInit ==
    /\ fs \in DamagedTrees
    /\ ext = ExtFiles
    /\ clock = 0
    /\ eventLog = <<>>
    /\ janData \in BuilderTrees
    /\ reply = [op |-> "none"]
    /\ ImportIdle /\ RegIdle /\ PollIdle

ListingNext ==
    \/ GetConfiguredModels
    \/ GetDownloadedModels
    \/ GetBuilder

SpecListing == ListingInit /\ [][ListingNext]_vars

ListedAny == lastOp.op \in {"getModelsMetadata", "getDownloadedModels"}

DamagedFolders(f) ==
    {d \in readdirSync(f, <<>>) :
        /\ existsSync(f, <<d, _modelMetadataFileName>>)
        /\ ~parses(f[<<d, _modelMetadataFileName>>])}

\* the folders of a REST registry whose descriptor file is there
BuilderFolders(jd, configuration) ==
    {d \in readdirSync(jd, <<<<configuration.dirName>>>>) :
        existsSync(jd, <<<<configuration.dirName>>, d, configuration.metadataFileName>>)}

BuilderDescriptor(jd, configuration, d) ==
    jd[<<<<configuration.dirName>>, d, configuration.metadataFileName>>].data

\* C17: listing is resilient to corrupt descriptors.  getModelsMetadata
\* returns a list that has no entry for a folder whose model.json does not
\* parse, leaves that file alone, and has the descriptor of every folder whose
\* model.json parses; getBuilder returns exactly the descriptors of the
\* registry's folders whose descriptor file parses.
C17_ListingResilient ==
    /\ lastOp.op = "getModelsMetadata" =>
          /\ \A d \in DamagedFolders(lastOp.pre) :
                /\ ~ReturnedFrom(d)
                /\ \A i \in 1..Len(lastOp.ret) : lastOp.ret[i].id # d
                /\ fs[<<d, _modelMetadataFileName>>] =
                       lastOp.pre[<<d, _modelMetadataFileName>>]
          /\ \A d \in ParsedFolders(lastOp.pre) :
                Returned([file_path |-> <<d, _modelMetadataFileName>>,
                          file_name |-> _modelMetadataFileName]
                         @@ promoteSourceUrl(
                                lastOp.pre[<<d, _modelMetadataFileName>>].data[2]))
          /\ Len(lastOp.ret) =
                 Cardinality(ParsedFolders(lastOp.pre))
                 + Cardinality(DOMAIN synthesized \ DOMAIN lastOp.preSynth)
    /\ reply.op = "getBuilder" =>
          /\ \A d \in BuilderFolders(reply.pre, reply.configuration) :
                LET data == BuilderDescriptor(reply.pre, reply.configuration, d)
                IN  data[1] = "json" =>
                        \E i \in 1..Len(reply.ret) : reply.ret[i] = data[2]
          /\ Len(reply.ret) =
                 Cardinality({d \in BuilderFolders(reply.pre, reply.configuration) :
                                 BuilderDescriptor(reply.pre, reply.configuration, d)[1]
                                     = "json"})

\* a listing of a root with a damaged and a sound descriptor, and a listing
\* of the models registry of the REST helper holding a damaged and a sound one
C17_Witness ==
    /\ lastOp.op = "getModelsMetadata"
    /\ DamagedFolders(lastOp.pre) # {}
    /\ ParsedFolders(lastOp.pre) # {}
    /\ Len(lastOp.ret) >= 2
    /\ reply.op = "getBuilder"
    /\ reply.configuration.dirName = "models"
    /\ <<<<"models">>, <<"helper">>, <<"model.json">>>> \in DOMAIN reply.pre
    /\ Len(reply.ret) = 1

\* C18: legacy field promotion.  Every descriptor a listing returns from a
\* persisted model.json that has a source_url carries a sources list of
\* exactly one entry, whose url is that source_url and whose filename is the
\* descriptor's id; one without source_url carries the sources of the file;
\* and the file is left as it was.
C18_LegacyPromotion ==
    ListedAny =>
        \A i \in 1..Len(lastOp.ret) :
            "file_path" \in DOMAIN lastOp.ret[i] =>
                LET D == lastOp.pre[lastOp.ret[i].file_path].data[2]
                    m == lastOp.ret[i]
                IN  /\ "sources" \in DOMAIN m
                    /\ IF "source_url" \in DOMAIN D
                       THEN /\ Len(m.sources) = 1
                            /\ m.sources[1].url = D.source_url
                            /\ m.sources[1].filename = D.id
                       ELSE m.sources = D.sources
                    /\ fs[m.file_path] = lastOp.pre[m.file_path]
                    /\ "sources" \in DOMAIN D <=>
                          "sources" \in DOMAIN fs[m.file_path].data[2]

\* a descriptor holding only source_url was listed
C18_Witness ==
    /\ lastOp.op = "getModelsMetadata"
    /\ \E i \in 1..Len(lastOp.ret) :
          /\ "file_path" \in DOMAIN lastOp.ret[i]
          /\ "source_url" \in DOMAIN lastOp.pre[lastOp.ret[i].file_path].data[2]
          /\ "sources" \notin DOMAIN lastOp.pre[lastOp.ret[i].file_path].data[2]
          /\ Len(lastOp.ret[i].sources) = 1
          /\ lastOp.ret[i].sources[1].filename = <<"helper">>

----------------------------------------------------------------------------
(* Claims about the link strategy *)

\* the step in which importModelSymlink returned a model to importModels
LinkImported ==
    /\ pc = "importModelSymlink"
    /\ Len(eventLog') = Len(eventLog) + 1
    /\ eventLog'[Len(eventLog')].type = "onLocalImportModelSuccess"

Binaries(f) == {q \in DOMAIN f : f[q].kind = "file" /\ f[q].data[1] = "bin"}

\* C19: link-strategy import.  The step that imports an item with the link
\* option copies no byte of the binary, leaves the newly allocated folder
\* holding exactly the descriptor file, and persists a descriptor whose single
\* source has the original external path as its url and whose id and name are
\* the allocated (disambiguated) folder name.
C19_LinkImport ==
    [][LinkImported =>
        LET modelFilePath == joinPath(modelFolderPath, _modelMetadataFileName)
            allocated == newModelFolderName(modelFolderName(models[idx]), count)
            D == fs'[modelFilePath].data[2]
        IN  /\ ext' = ext
            /\ Binaries(fs') = {}
            /\ DOMAIN fs' = DOMAIN fs \cup {modelFilePath}
            /\ \A q \in DOMAIN fs : fs'[q] = fs[q]
            /\ modelFilePath \notin DOMAIN fs
            /\ modelFolderPath = <<allocated>>
            /\ readdirSync(fs', modelFolderPath) = {_modelMetadataFileName}
            /\ parses(fs'[modelFilePath])
            /\ Len(D.sources) = 1
            /\ D.sources[1].url = models[idx].path
            /\ D.id = allocated
            /\ D.name = allocated
            /\ eventLog'[Len(eventLog')].modelId = Some(allocated)]_vars

\* an item was link-imported into a folder whose name had to be disambiguated
C19_Witness ==
    /\ optionType = "SYMLINK"
    /\ Len(eventLog) > 0
    /\ eventLog[Len(eventLog)].type = "onLocalImportModelSuccess"
    /\ eventLog[Len(eventLog)].modelId = Some(<<"foo", "-", "1">>)
    /\ <<<<"foo", "-", "1">>, _modelMetadataFileName>> \in DOMAIN fs
    /\ fs[<<<<"foo", "-", "1">>, _modelMetadataFileName>>].data[2].sources[1].url
          = ExtFoo

----------------------------------------------------------------------------
(* Link imports followed by deletions *)

LinkInit ==
    /\ fs \in {FsWith({}), FsWith({<<"foo">>})}
    /\ ext = ExtFiles
    /\ clock = 0
    /\ eventLog = <<>>
    /\ models \in {[i \in 1..Len(q) |-> [path |-> q[i]]] :
                      q \in SeqsUpTo(ImportPaths, MaxModels)}
    /\ optionType = "SYMLINK"
    /\ idx = 1
    /\ pc = "for"
    /\ count = 0
    /\ modelFolderPath = <<>>
    /\ importedModels = <<>>
    /\ intervals = {}
    /\ ticking = {}
    /\ returnedAt = 0
    /\ RegIdle /\ PollIdle /\ BuilderIdle

LinkNext ==
    \/ ImportModelsNext
    \/ GetModelFolderName
    \/ Mkdir
    \/ ImportModelSymlink
    \/ ImportModelsFinished
    \/ DeleteModel

SpecLink == LinkInit /\ [][LinkNext]_vars

\* a descriptor that importModelSymlink wrote and nothing has changed since
LinkImportedAt(p) ==
    /\ p \in DOMAIN fs
    /\ \E i \in 1..Len(importedModels) :
          /\ importedModels[i].file_path = p
          /\ fs[p] = FileNode(1, <<"json", omit(importedModels[i],
                                                {"file_path", "file_name"})>>)

\* the step in which deleteModel ran on a link-imported model
DeletesLinked ==
    /\ lastOp' # lastOp
    /\ lastOp'.op = "deleteModel"
    /\ LinkImportedAt(lastOp'.arg.file_path)

\* C20: deleting a link-imported model removes the model's folder and neither
\* deletes nor modifies the external binary at the original path.
C20_DeleteKeepsExternal ==
    [][DeletesLinked =>
        LET p == lastOp'.arg.file_path
            url == fs[p].data[2].sources[1].url
        IN  /\ \A q \in DOMAIN fs' : ~isPrefix(dirName(p), q)
            /\ \A q \in DOMAIN fs : ~isPrefix(dirName(p), q) => 
                  q \in DOMAIN fs' /\ fs'[q] = fs[q]
            /\ url \in DOMAIN ext
            /\ url \in DOMAIN ext'
            /\ ext'[url] = ext[url]
            /\ ext' = ext]_vars

\* a link-imported model was deleted: its folder is gone, its binary is not
C20_Witness ==
    /\ lastOp.op = "deleteModel"
    /\ lastOp.arg.file_path = <<<<"foo">>, _modelMetadataFileName>>
    /\ lastOp.arg.file_path \in DOMAIN lastOp.pre
    /\ lastOp.pre[lastOp.arg.file_path].data[2].sources[1].url = ExtFoo
    /\ <<"foo">> \notin DOMAIN fs
    /\ ExtFoo \in DOMAIN ext

----------------------------------------------------------------------------
(* retrieveGGUFMetadata on its own: any header, template rendered or not *)

Opt(k, v) == IF v = Undefined THEN <<>> ELSE (k :> v[1])

TokenTable == <<"<unk>", "<s>", "</s>">>

Headers ==
    {Opt(<<"general", "architecture">>, arch)
       @@ Opt(<<"qwen", "context_length">>, archCtx)
       @@ Opt(<<"llama", "context_length">>, llamaCtx)
       @@ Opt(<<"qwen", "block_count">>, archBlock)
       @@ Opt(<<"llama", "block_count">>, llamaBlock)
       @@ Opt(<<"tokenizer.ggml", "eos_token_id">>, eos)
       @@ Opt(<<"tokenizer.ggml", "tokens">>, tokens) :
         arch \in {Undefined, Some("llama"), Some("qwen")},
         archCtx \in {Undefined, Some(0), Some(2048)},
         llamaCtx \in {Undefined, Some(8192)},
         archBlock \in {Undefined, Some(32)},
         llamaBlock \in {Undefined, Some(32), Some(40)},
         eos \in {Undefined} \cup {Some(i) : i \in 0..MaxEosId},
         tokens \in {Undefined, Some(TokenTable)}}

\* settings: {...defaultModel.settings, ...updatedModel.settings,
\*             llama_model_path: binaryFileName}, lines 800-804 and 696-700
importedSettings(updatedModel, binaryFileName) ==
    Spread(Spread(DEFAULT_MODEL.settings, updatedModel.settings),
           [llama_model_path |-> binaryFileName])

\* const updatedModel = await this.retrieveGGUFMetadata(metadata), and the
\* settings of the descriptor built from it
RetrieveGGUFMetadata ==
    /\ reply.op = "metadata"
    /\ \E r \in {ggufModel(reply.metadata, reply.template)} :
          reply' = [op |-> "retrieveGGUFMetadata",
                    metadata |-> reply.metadata,
                    template |-> reply.template,
                    ret |-> r,
                    settings |-> IF r.threw THEN <<>>
                                 ELSE importedSettings(r, <<"foo", ".gguf">>)]
    /\ UNCHANGED <<fs, ext, clock, eventLog, janData>>
    /\ UNCHANGED <<importVars, regVars, pollVars>>

\* the header the metadata extraction returned, and the template rendering
GGUFInit ==
    /\ fs = FsWith({})
    /\ ext = ExtFiles
    /\ clock = 0
    /\ eventLog = <<>>
    /\ janData = <<>>
    /\ reply \in {[op |-> "metadata", metadata |-> metadata, template |-> template] :
                     metadata \in Headers,
                     template \in {Undefined, Some("chat-template")}}
    /\ ImportIdle /\ RegIdle /\ PollIdle

GGUFNext == RetrieveGGUFMetadata

SpecGGUF == GGUFInit /\ [][GGUFNext]_vars

Retrieved == reply.op = "retrieveGGUFMetadata"

EosId == Get(reply.metadata, <<"tokenizer.ggml", "eos_token_id">>)

Tokens == Get(reply.metadata, <<"tokenizer.ggml", "tokens">>)

\* C21: stop-token resolution.  When the header declares an end-of-sequence
\* id (0 included) and the token table has an entry at that index,
\* parameters.stop is the one-element list holding that token; when the id or
\* the table is absent, parameters.stop is the default descriptor's stop list
\* and nothing is raised.
C21_StopToken ==
    Retrieved =>
        /\ (EosId # Undefined /\ Tokens # Undefined
               /\ EosId[1] + 1 \in 1..Len(Tokens[1]))
             => /\ ~reply.ret.threw
                /\ reply.ret.parameters.stop = <<Tokens[1][EosId[1] + 1]>>
        /\ (EosId = Undefined \/ Tokens = Undefined)
             => /\ ~reply.ret.threw
                /\ reply.ret.parameters.stop = DEFAULT_MODEL.parameters.stop

Architecture == Get(reply.metadata, <<"general", "architecture">>)

\* the header's value under <architecture>.<key>, else under llama.<key>
Reported(key) ==
    IF Architecture # Undefined
          /\ <<Architecture[1], key>> \in DOMAIN reply.metadata
    THEN Some(reply.metadata[<<Architecture[1], key>>])
    ELSE IF <<"llama", key>> \in DOMAIN reply.metadata
    THEN Some(reply.metadata[<<"llama", key>>])
    ELSE Undefined

\* C22: context length and layer count.  ctx_len is the header's
\* <architecture>.context_length when present, else llama.context_length, else
\* 4096; ngl is one more than <architecture>.block_count when present, else
\* one more than llama.block_count, else 33; a reported block_count of 32
\* gives ngl = 33 in the settings of the descriptor.
C22_ContextAndLayers ==
    (Retrieved /\ ~reply.ret.threw) =>
        /\ reply.ret.settings.ctx_len =
              (IF Reported("context_length") # Undefined
               THEN Reported("context_length")[1] ELSE 4096)
        /\ reply.ret.settings.ngl =
              (IF Reported("block_count") # Undefined
               THEN Reported("block_count")[1] + 1 ELSE 33)
        /\ Reported("block_count") = Some(32) => reply.settings.ngl = 33
        /\ reply.settings.ctx_len = reply.ret.settings.ctx_len

\* a header of another architecture reporting 32 blocks gave ngl = 33
C22_Witness ==
    /\ Retrieved
    /\ ~reply.ret.threw
    /\ Architecture = Some("qwen")
    /\ <<"qwen", "block_count">> \in DOMAIN reply.metadata
    /\ reply.metadata[<<"qwen", "block_count">>] = 32
    /\ <<"llama", "block_count">> \in DOMAIN reply.metadata
    /\ reply.metadata[<<"llama", "block_count">>] = 40
    /\ reply.settings.ngl = 33
    /\ reply.settings.ctx_len = 0

----------------------------------------------------------------------------
(* getModelJsonPath on its own: any tree of folders, searched from any root *)

\* foo/bar/sub/sub/..., k folders deep below foo
Chain(k) == <<<<"foo">>, <<"bar">>>> \o [i \in 1..(k - 1) |-> <<"sub">>]

SearchFolders ==
    {<<<<"foo">>>>, <<<<"foo">>, <<"baz">>>>} \cup {Chain(k) : k \in 1..(MaxDepth - 1)}

SearchFiles ==
    {joinPath(d, _modelMetadataFileName) : d \in SearchFolders}
        \cup {<<<<"foo">>, <<".DS_Store">>>>}

SearchTree(S) ==
    [p \in {<<>>} \cup S |->
        IF p \in SearchFiles THEN FileNode(1, <<"text">>) ELSE DirNode]

SearchTrees ==
    {SearchTree(S) : S \in {T \in SUBSET (SearchFolders \cup SearchFiles) :
                               \A p \in T : Len(p) > 1 => dirName(p) \in T}}

SearchRoots == {<<<<"foo">>>>, <<<<"foo">>, <<"bar">>>>, <<<<"gone">>>>}

\* const jsonPath = await this.getModelJsonPath(folderFullPath)
GetModelJsonPath ==
    /\ reply.op = "folderFullPath"
    /\ \E r \in {getModelJsonPath(fs, reply.folderFullPath)} :
          reply' = [op |-> "getModelJsonPath",
                    folderFullPath |-> reply.folderFullPath,
                    threw |-> r.threw,
                    ret |-> r.ret]
    /\ UNCHANGED <<fs, ext, clock, eventLog, janData>>
    /\ UNCHANGED <<importVars, regVars, pollVars>>

SearchInit ==
    /\ fs \in SearchTrees
    /\ ext = ExtFiles
    /\ clock = 0
    /\ eventLog = <<>>
    /\ janData = <<>>
    /\ reply \in {[op |-> "folderFullPath", folderFullPath |-> d] : d \in SearchRoots}
    /\ ImportIdle /\ RegIdle /\ PollIdle

SearchNext == GetModelJsonPath

SpecSearch == SearchInit /\ [][SearchNext]_vars

\* a comes before b in a depth-first walk that visits a folder before its
\* sub-folders and the sub-folders in listing order
VisitedBefore(a, b) ==
    \/ isPrefix(a, b) /\ a # b
    \/ \E i \in 1..Min({Len(a), Len(b)}) :
          /\ SubSeq(a, 1, i - 1) = SubSeq(b, 1, i - 1)
          /\ NameLess(a[i], b[i])

\* the folders at or below root that hold the descriptor file
Holders(root) ==
    {d \in DOMAIN fs : /\ isPrefix(root, d)
                       /\ fs[d].kind = "dir"
                       /\ joinPath(d, _modelMetadataFileName) \in DOMAIN fs}

\* C23: descriptor search.  The search ends without raising; it returns the
\* descriptor path of the root itself when the root holds the descriptor file,
\* otherwise that of the first folder below it, depth first in listing order,
\* that holds it; it returns absent when the root does not exist, is empty, or
\* no folder of the tree holds the descriptor file.
C23_DescriptorSearch ==
    reply.op = "getModelJsonPath" =>
        LET root == reply.folderFullPath
        IN  /\ ~reply.threw
            /\ joinPath(root, _modelMetadataFileName) \in DOMAIN fs
                  => reply.ret = Some(joinPath(root, _modelMetadataFileName))
            /\ Holders(root) # {}
                  => \E d \in Holders(root) :
                        /\ reply.ret = Some(joinPath(d, _modelMetadataFileName))
                        /\ \A e \in Holders(root) \ {d} : VisitedBefore(d, e)
            /\ (\/ root \notin DOMAIN fs
                \/ readdirSync(fs, root) = {}
                \/ Holders(root) = {})
                  => reply.ret = Undefined

\* the descriptor was found two folders down, past a sibling that also has one
C23_Witness ==
    /\ reply.op = "getModelJsonPath"
    /\ reply.folderFullPath = <<<<"foo">>>>
    /\ reply.ret = Some(<<<<"foo">>, <<"bar">>, <<"sub">>, _modelMetadataFileName>>)
    /\ <<<<"foo">>, <<"baz">>, _modelMetadataFileName>> \in DOMAIN fs

----------------------------------------------------------------------------
(* generateModelMetadata on its own: a folder with any mix of entries *)

GgufNames == {<<"bar", ".gguf">>, <<"baz", ".gguf">>, <<"foo", ".gguf">>}

OtherNames == {<<"bar", ".gguf", ".download">>, <<"config">>}

\* what an entry named *.gguf can be: a folder, a binary of one size or
\* another, a file that holds no header
GgufNodes ==
    {DirNode, FileNode(1, <<"bin", "llama32">>), FileNode(2, <<"bin", "bare">>),
     FileNode(3, <<"bin", "none">>)}

SynthTrees ==
    {(<<>> :> DirNode) @@ (<<<<"foo">>>> :> DirNode)
       @@ [p \in {<<<<"foo">>, n>> : n \in G} |-> g[p[2]]]
       @@ [p \in {<<<<"foo">>, n>> : n \in O} |-> FileNode(1, <<"text">>)] :
         G \in SUBSET GgufNames, O \in SUBSET OtherNames,
         g \in [GgufNames -> GgufNodes]}

\* return this.generateModelMetadata(dirName)
Generate ==
    /\ reply.op = "dirName"
    /\ \E r \in {generateModelMetadata(fs, reply.dirName, clock)} :
          /\ fs' = r.fs
          /\ reply' = [op |-> "generateModelMetadata",
                       dirName |-> reply.dirName,
                       pre |-> fs,
                       threw |-> r.threw,
                       ret |-> r.ret]
    /\ UNCHANGED <<ext, clock, eventLog, janData>>
    /\ UNCHANGED <<importVars, regVars, pollVars>>

SynthInit ==
    /\ fs \in SynthTrees
    /\ ext = ExtFiles
    /\ clock \in 0..MaxClock
    /\ eventLog = <<>>
    /\ janData = <<>>
    /\ reply = [op |-> "dirName", dirName |-> <<"foo">>]
    /\ ImportIdle /\ RegIdle /\ PollIdle

SynthNext == Generate

SpecSynth == SynthInit /\ [][SynthNext]_vars

\* the entries of the folder that end with the binary extension and are files
BinaryEntries ==
    {n \in readdirSync(reply.pre, <<reply.dirName>>) :
        /\ endsWith(n, _supportedModelFormat)
        /\ reply.pre[<<reply.dirName, n>>].kind = "file"}

FirstBinary ==
    CHOOSE n \in BinaryEntries : \A m \in BinaryEntries \ {n} : NameLess(n, m)

\* C24: synthesis binary selection.  The binary used is the first entry, in
\* lexicographic order, that ends with the binary extension and is not a
\* directory, and metadata.size is that file's length; with no such entry the
\* call returns absent, raises nothing and writes no descriptor.
C24_BinarySelection ==
    reply.op = "generateModelMetadata" =>
        IF BinaryEntries = {}
        THEN /\ ~reply.threw
             /\ reply.ret = Undefined
             /\ fs = reply.pre
        ELSE LET node == reply.pre[<<reply.dirName, FirstBinary>>]
                 descriptor == <<reply.dirName, _modelMetadataFileName>>
             IN  IF reply.threw
                 THEN ~canExtract(node.data) /\ fs = reply.pre
                 ELSE /\ canExtract(node.data)
                      /\ reply.ret # Undefined
                      /\ reply.ret[1].sources[1].filename = FirstBinary
                      /\ reply.ret[1].settings.llama_model_path = FirstBinary
                      /\ reply.ret[1].metadata.size = node.size
                      /\ descriptor \in DOMAIN fs
                      /\ fs[descriptor].data = <<"json", reply.ret[1]>>

\* the folder's first *.gguf entry is a directory and the second a binary
C24_Witness ==
    /\ reply.op = "generateModelMetadata"
    /\ BinaryEntries = {<<"baz", ".gguf">>, <<"foo", ".gguf">>}
    /\ <<<<"foo">>, <<"bar", ".gguf">>>> \in DOMAIN reply.pre
    /\ reply.pre[<<<<"foo">>, <<"foo", ".gguf">>>>].size = 1
    /\ reply.ret # Undefined
    /\ reply.ret[1].metadata.size = 2

\* a folder without a binary gave no model
C24_WitnessAbsent ==
    /\ reply.op = "generateModelMetadata"
    /\ readdirSync(reply.pre, <<reply.dirName>>) =
          {<<"foo", ".gguf">>, <<"bar", ".gguf", ".download">>}
    /\ BinaryEntries = {}
    /\ reply.ret = Undefined

----------------------------------------------------------------------------
(* The three calls of the REST helper together *)

RetrieveBuilder ==
    /\ \E configuration \in RouteConfigurations, id \in BuilderIds :
          reply' = [op |-> "retrieveBuilder", configuration |-> configuration,
                    id |-> id,
                    ret |-> retrieveBuilder(janData, configuration, id),
                    pre |-> janData]
    /\ UNCHANGED janData
    /\ UNCHANGED <<fs, ext, clock, eventLog, importVars, regVars, pollVars>>

HelperNext == GetBuilder \/ RetrieveBuilder \/ DeleteBuilder

SpecHelper == BuilderInit /\ [][HelperNext]_vars

\* the descriptor files of the registry, before the call, that parse and
\* carry the id
Carriers(id) ==
    {q \in DOMAIN reply.pre :
        /\ Len(q) = 3
        /\ q[1] = <<reply.configuration.dirName>>
        /\ q[3] = reply.configuration.metadataFileName
        /\ reply.pre[q].data[1] = "json"
        /\ "id" \in DOMAIN reply.pre[q].data[2]
        /\ reply.pre[q].data[2].id = id}

RegistryMissing == <<<<reply.configuration.dirName>>>> \notin DOMAIN reply.pre

\* C25: NotFound is a value.  retrieveBuilder returns absent for an id that no
\* descriptor carries and when the registry directory does not exist;
\* getBuilder returns the empty list when the directory does not exist;
\* deleteBuilder for an id that is not found returns the 'Not found' message
\* and leaves the data folder as it was.
C25_NotFoundIsAValue ==
    /\ reply.op = "retrieveBuilder" =>
          /\ (RegistryMissing \/ Carriers(reply.id) = {}) => reply.ret = Undefined
          /\ reply.ret # Undefined =>
                \E q \in Carriers(reply.id) : reply.ret = Some(reply.pre[q].data[2])
          /\ janData = reply.pre
    /\ reply.op = "getBuilder" =>
          /\ RegistryMissing => reply.ret = <<>>
          /\ janData = reply.pre
    /\ (reply.op = "deleteBuilder"
           /\ ~(reply.configuration.dirName = "assistants" /\ reply.id = <<"jan">>)
           /\ (RegistryMissing \/ Carriers(reply.id) = {})) =>
          /\ reply.ret = Some([message |-> "Not found"])
          /\ janData = reply.pre

\* an id nobody carries was asked for in a registry that holds descriptors
C25_Witness ==
    /\ reply.op = "retrieveBuilder"
    /\ reply.id = <<"gone">>
    /\ reply.configuration.dirName = "assistants"
    /\ <<<<"assistants">>, <<"helper">>, <<"assistant.json">>>> \in DOMAIN reply.pre
    /\ reply.ret = Undefined

\* a deletion was asked for in a registry whose directory does not exist
C25_WitnessDelete ==
    /\ reply.op = "deleteBuilder"
    /\ reply.configuration.dirName = "threads"
    /\ RegistryMissing
    /\ reply.ret = Some([message |-> "Not found"])

----------------------------------------------------------------------------
(* Imports with listings and deletions in between *)

\* importModels(models, optionType) with a short batch
ImportRegistryInit ==
    /\ fs \in {FsWith({}), FsWith({<<"foo">>})}
    /\ ext = ExtFiles
    /\ clock = 0
    /\ eventLog = <<>>
    /\ models \in {[i \in 1..Len(q) |-> [path |-> q[i]]] :
                      q \in SeqsUpTo(ImportPaths, MaxBatch)}
    /\ optionType \in {"SYMLINK", "MOVE_BINARY_FILE"}
    /\ idx = 1
    /\ pc = "for"
    /\ count = 0
    /\ modelFolderPath = <<>>
    /\ importedModels = <<>>
    /\ intervals = {}
    /\ ticking = {}
    /\ returnedAt = 0
    /\ RegIdle /\ PollIdle /\ BuilderIdle

ImportRegistryNext ==
    \/ ImportModelsNext
    \/ GetModelFolderName
    \/ Mkdir
    \/ ImportModelSymlink
    \/ FileStat
    \/ CopyFileOpen
    \/ CopyFileDone
    \/ CopyFileThrows
    \/ GenerateModelMetadata
    \/ ImportModelsFinished
    \/ GetConfiguredModels
    \/ DeleteModel

SpecImportRegistry == ImportRegistryInit /\ [][ImportRegistryNext]_vars

\* the step in which deleteModel ran on a descriptor that parses
DeletesDescriptor ==
    /\ ops' = ops + 1
    /\ lastOp'.op = "deleteModel"
    /\ lastOp'.arg.file_path \in DOMAIN fs
    /\ parses(fs[lastOp'.arg.file_path])

\* C26: imported and synthesized models are user-imported for deletion.  Every
\* descriptor that synthesis, a copy import or a link import has written
\* carries the author 'User', and deleteModel on it removes the whole folder,
\* descriptor included.
C26_ImportedAreUserImported ==
    [][/\ \A p \in DescriptorPaths(fs') :
             parses(fs'[p]) =>
                 /\ "metadata" \in DOMAIN fs'[p].data[2]
                 /\ fs'[p].data[2].metadata.author = "User"
       /\ DeletesDescriptor =>
             \A q \in DOMAIN fs' : ~isPrefix(dirName(lastOp'.arg.file_path), q)]_vars

\* the descriptor of a copy import was deleted together with its binary
C26_Witness ==
    /\ lastOp.op = "deleteModel"
    /\ optionType = "MOVE_BINARY_FILE"
    /\ Len(importedModels) = 1
    /\ lastOp.arg.file_path = <<importedModels[1].id, _modelMetadataFileName>>
    /\ lastOp.arg.file_path \in DOMAIN lastOp.pre
    /\ <<importedModels[1].id, <<"foo", ".gguf">>>> \in DOMAIN lastOp.pre
    /\ <<importedModels[1].id>> \notin DOMAIN fs

\* a descriptor that a listing synthesized was deleted
C26_WitnessSynthesized ==
    /\ lastOp.op = "deleteModel"
    /\ lastOp.arg.file_path \in DOMAIN lastOp.pre
    /\ lastOp.arg.file_path[1] \in DOMAIN lastOp.preSynth
    /\ <<lastOp.arg.file_path[1]>> \notin DOMAIN fs

\* a descriptor of a link import was deleted
C26_WitnessLink ==
    /\ lastOp.op = "deleteModel"
    /\ optionType = "SYMLINK"
    /\ Len(importedModels) = 1
    /\ lastOp.arg.file_path = <<importedModels[1].id, _modelMetadataFileName>>
    /\ lastOp.arg.file_path \in DOMAIN lastOp.pre
    /\ <<importedModels[1].id>> \notin DOMAIN fs

\* the step in which a listing ran while no import was under way
ListsBetweenImports ==
    /\ ops' = ops + 1
    /\ lastOp'.op = "getModelsMetadata"
    /\ pc \in {"for", "returned"}

SomeImportFailed ==
    \E i \in 1..Len(eventLog) : eventLog[i].type = "onLocalImportModelFailed"

\* C28: a failed import leaves the registry unchanged.  The registry starts
\* without models; as long as every import has failed, a listing returns what
\* it returned before them: nothing.
C28_FailedImportLeavesNothing ==
    [][(ListsBetweenImports /\ SomeImportFailed /\ importedModels = <<>>)
          => lastOp'.ret = <<>>]_vars

----------------------------------------------------------------------------
(* Several importModel calls under way at once, each at its own await.  In
   this specification pc, count and modelFolderPath hold one value per call
   and models[i] is the item of call i. *)

Callers == 1..MaxCallers

\* one call of getModelFolderName(modelFolderName, count) by call i
ProbeBy(i) ==
    /\ pc[i] = "getModelFolderName"
    /\ LET path == <<newModelFolderName(modelFolderName(models[i]), count[i])>>
       IN  IF ~existsSync(fs, path)
           THEN /\ modelFolderPath' = [modelFolderPath EXCEPT ![i] = path]
                /\ pc' = [pc EXCEPT ![i] = "mkdir"]
                /\ count' = count
           ELSE /\ count' = [count EXCEPT ![i] = newCount(count[i])]
                /\ UNCHANGED <<modelFolderPath, pc>>
    /\ UNCHANGED <<fs, ext, clock, eventLog, models, optionType, idx,
                   importedModels, intervals, ticking, returnedAt>>
    /\ UNCHANGED <<regVars, pollVars, builderVars>>

\* await fs.mkdir(modelFolderPath) by call i
MkdirBy(i) ==
    /\ pc[i] = "mkdir"
    /\ fs' = mkdir(fs, modelFolderPath[i])
    /\ pc' = [pc EXCEPT ![i] = "importModelSymlink"]
    /\ UNCHANGED <<ext, clock, eventLog, models, optionType, idx, count,
                   modelFolderPath, importedModels, intervals, ticking, returnedAt>>
    /\ UNCHANGED <<regVars, pollVars, builderVars>>

\* importModelSymlink(model.path, uniqueFolderName, modelFolderPath) by call i
SymlinkBy(i) ==
    /\ pc[i] = "importModelSymlink"
    /\ fs' = writeFileSync(fs, joinPath(modelFolderPath[i], _modelMetadataFileName),
                           <<"json", symlinkModel(models[i].path,
                                                  baseName(modelFolderPath[i]),
                                                  clock)>>)
    /\ pc' = [pc EXCEPT ![i] = "returned"]
    /\ UNCHANGED <<ext, clock, eventLog, models, optionType, idx, count,
                   modelFolderPath, importedModels, intervals, ticking, returnedAt>>
    /\ UNCHANGED <<regVars, pollVars, builderVars>>

ConcurrentInit ==
    /\ fs \in {FsWith({}), FsWith({<<"foo">>}), FsWith({<<"foo">>, <<"foo", "-", "1">>})}
    /\ ext = ExtFiles
    /\ clock = 0
    /\ eventLog = <<>>
    /\ models \in [Callers -> {[path |-> ExtFoo], [path |-> ExtEio]}]
    /\ optionType = "SYMLINK"
    /\ idx = 1
    /\ pc = [i \in Callers |-> "getModelFolderName"]
    /\ count = [i \in Callers |-> 0]
    /\ modelFolderPath = [i \in Callers |-> <<>>]
    /\ importedModels = <<>>
    /\ intervals = {}
    /\ ticking = {}
    /\ returnedAt = 0
    /\ RegIdle /\ PollIdle /\ BuilderIdle

ConcurrentNext == \E i \in Callers : ProbeBy(i) \/ MkdirBy(i) \/ SymlinkBy(i)

SpecConcurrent == ConcurrentInit /\ [][ConcurrentNext]_vars

\* the step in which the allocator hands call j its folder
Allocates(j) == pc[j] = "getModelFolderName" /\ pc'[j] = "mkdir"

\* C27: folder allocation is probe-then-create with no guard.  A call whose
\* probe succeeds while another call with the same desired name holds a
\* folder it has not created yet is handed that same folder, and both go on
\* to write their descriptor into it; a call whose probe succeeds after the
\* other calls have created their folders is handed a folder of its own.
C27_ProbeThenCreate ==
    [][\A j \in Callers :
          /\ Allocates(j) =>
                \A i \in Callers \ {j} :
                    /\ (/\ pc[i] = "mkdir"
                        /\ ~existsSync(fs, modelFolderPath[i])
                        /\ modelFolderName(models[i]) = modelFolderName(models[j]))
                          => modelFolderPath'[j] = modelFolderPath[i]
                    /\ pc[i] \in {"importModelSymlink", "returned"}
                          => modelFolderPath'[j] # modelFolderPath[i]
          /\ (pc[j] = "importModelSymlink" /\ pc'[j] = "returned") =>
                /\ joinPath(modelFolderPath[j], _modelMetadataFileName) \in DOMAIN fs'
                /\ fs'[joinPath(modelFolderPath[j], _modelMetadataFileName)].data[2].id
                      = baseName(modelFolderPath[j])]_vars

\* two calls were handed the same folder and both have written into it
C27_Witness ==
    /\ \A i \in Callers : pc[i] = "returned"
    /\ \E i, j \in Callers :
          /\ i # j
          /\ modelFolderPath[i] = modelFolderPath[j]
          /\ modelFolderPath[i] = <<<<"foo", "-", "1">>>>
          /\ joinPath(modelFolderPath[i], _modelMetadataFileName) \in DOMAIN fs

\* two calls with the same desired name, one after the other, got two folders
C27_WitnessSequential ==
    /\ \A i \in Callers : pc[i] = "returned"
    /\ \A i, j \in Callers : i # j =>
          /\ modelFolderName(models[i]) = modelFolderName(models[j])
          /\ modelFolderPath[i] # modelFolderPath[j]

----------------------------------------------------------------------------
(* Claims about overlapping status requests *)

IsTerminalEvent(e) == e.name \in {"onFileDownloadSuccess", "onFileDownloadError"}

\* C29: remote polling emits at most one terminal event.  Within one polling
\* session, also when a status request is still under way at the next tick,
\* a download-success or download-error event is the last event emitted:
\* there is one of them at most and no update, success or error follows it.
C29_OneTerminalEvent ==
    \A i \in 1..Len(downloadEvents) :
        IsTerminalEvent(downloadEvents[i]) => i = Len(downloadEvents)

----------------------------------------------------------------------------
(* Claims about deleting through the REST helper *)

ReportedDeleted ==
    /\ reply.op = "deleteBuilder"
    /\ reply.ret = Some([id |-> reply.id,
                         object |-> reply.configuration.delete.object,
                         deleted |-> TRUE])

\* the folders that held a descriptor with the id when the call was made
HoldersOf(id) == {dirName(q) : q \in Carriers(id)}

\* C30: delete then retrieve.  When deleteBuilder reports deleted: true, the
\* folder that held the descriptor with that id is gone, nothing outside it
\* has been removed, and retrieveBuilder for the id now returns absent, also
\* when the id differs from the name of the folder.
C30_DeleteThenRetrieve ==
    ReportedDeleted =>
        /\ \A d \in HoldersOf(reply.id) : \A q \in DOMAIN janData : ~isPrefix(d, q)
        /\ \A q \in DOMAIN reply.pre :
              (\A d \in HoldersOf(reply.id) : ~isPrefix(d, q)) => q \in DOMAIN janData
        /\ retrieveBuilder(janData, reply.configuration, reply.id) = Undefined

----------------------------------------------------------------------------
(* Download followed by cancel *)

\* the requests downloadModel handed to downloadFile for the model being
\* cancelled
RequestsOf(modelId) ==
    {i \in 1..Len(downloadRequests) : downloadRequests[i].modelId = modelId}

\* C31: cancel targets the transfer that download started.  After
\* cancelModelDownload(id), every request that downloadModel submitted for
\* model id has as its local path the path the cancel call aborts and removes.
C31_CancelTargetsDownload ==
    Cancelled =>
        \A i \in RequestsOf(lastOp.arg.modelId) :
            downloadRequests[i].localPath = cancelPath(lastOp.arg.modelId)

----------------------------------------------------------------------------
(* downloadModel and the descriptor it may write *)

\* model.file_path ?? joinPath([modelDirPath, 'model.json']) of the last call
DownloadJsonPath ==
    IF "file_path" \in DOMAIN lastOp.arg.model THEN lastOp.arg.model.file_path
    ELSE <<lastOp.arg.model.id, _modelMetadataFileName>>

\* the descriptor was on disk when the call started
DescriptorExisted == DownloadJsonPath \in DOMAIN lastOp.pre

\* a over b, key by key: b's value where b has the key, a's elsewhere
MergedOver(m, a, b) ==
    /\ DOMAIN m = DOMAIN a \cup DOMAIN b
    /\ \A k \in DOMAIN b : m[k] = b[k]
    /\ \A k \in DOMAIN a \ DOMAIN b : m[k] = a[k]

\* C32: downloadModel never overwrites an existing descriptor.  When the
\* descriptor file of the model exists before the call, it is on disk
\* afterwards with the same contents and no write is made; when it does not,
\* whatever the call submits is submitted after the descriptor was written,
\* and the descriptor written is the model with the header-extracted settings
\* and parameters merged over its own, announced by one OnModelsUpdate event.
C32_DescriptorWrittenOnce ==
    Downloaded =>
        /\ DescriptorExisted =>
              /\ ~lastOp.ret.wrote
              /\ DownloadJsonPath \in DOMAIN fs
              /\ fs[DownloadJsonPath] = lastOp.pre[DownloadJsonPath]
        /\ ~DescriptorExisted =>
              /\ Submitted => lastOp.ret.wrote
              /\ lastOp.ret.wrote <=> DownloadJsonPath \in DOMAIN fs
              /\ lastOp.ret.wrote =>
                    LET written == fs[DownloadJsonPath].data[2]
                        model == lastOp.arg.model
                        header == ggufModel(GGUFHeaders["llama32"],
                                            renderJinjaTemplate["llama32"])
                    IN  /\ fs[DownloadJsonPath].data[1] = "json"
                        /\ MergedOver(written.settings, model.settings,
                                      header.settings)
                        /\ MergedOver(written.parameters, model.parameters,
                                      header.parameters)
                        /\ \A k \in DOMAIN model \ {"settings", "parameters"} :
                              written[k] = model[k]
                        /\ Len(eventLog) > 0
                        /\ eventLog[Len(eventLog)].type = "OnModelsUpdate"

\* a download of a model whose descriptor was on disk, requests submitted
C32_Witness ==
    /\ Downloaded
    /\ DescriptorExisted
    /\ Submitted

\* a download that wrote the descriptor and then submitted its request
C32_WitnessWritten ==
    /\ Downloaded
    /\ ~DescriptorExisted
    /\ lastOp.ret.wrote
    /\ Submitted

\* a download whose descriptor could not be produced: nothing is submitted
C32_WitnessFailed ==
    /\ Downloaded
    /\ ~DescriptorExisted
    /\ lastOp.ret.threw

----------------------------------------------------------------------------
(* Synthesis over a binary whose header cannot be read *)

\* the metadata-extraction call for the chosen binary rejected
ExtractionFailed ==
    /\ reply.op = "generateModelMetadata"
    /\ BinaryEntries # {}
    /\ ~canExtract(reply.pre[<<reply.dirName, FirstBinary>>].data)

\* C33: synthesis tolerates a failed header extraction.  When the
\* metadata-extraction call for the chosen binary fails, generateModelMetadata
\* raises nothing, returns a descriptor and persists it, with ctx_len 4096,
\* ngl 33, the default stop list and the default prompt template.
C33_ExtractionFailureTolerated ==
    ExtractionFailed =>
        /\ ~reply.threw
        /\ reply.ret # Undefined
        /\ reply.ret[1].settings.ctx_len = 4096
        /\ reply.ret[1].settings.ngl = 33
        /\ reply.ret[1].settings.prompt_template
              = DEFAULT_MODEL.settings.prompt_template
        /\ reply.ret[1].parameters.stop = DEFAULT_MODEL.parameters.stop
        /\ <<reply.dirName, _modelMetadataFileName>> \in DOMAIN fs
        /\ fs[<<reply.dirName, _modelMetadataFileName>>].data
              = <<"json", reply.ret[1]>>

====
